---------------------------- MODULE Spec2Model ----------------------------
(* Model of the forecast_occupancy upload pipeline.                        *)
(*                                                                         *)
(* The repository holds several versions of the uploader page script and   *)
(* one data-manager class; each is a "variant" here:                       *)
(*   excel   : src/unnamed/part_005              handleUpload (xlsx page)  *)
(*   csv     : src/assets/js/upload.js           handleUpload (csv page)   *)
(*   shared  : src/assets/js/components/shared-components.js handleUpload  *)
(*   manager : src/assets/js/utils/supabase-client.js                      *)
(*             SupabaseDataManager.uploadForecastData                      *)
(* A page holds the module-level processedData; a slot is one invocation   *)
(* of handleUpload / uploadForecastData running on a page. Every await of  *)
(* the code is a suspension point: one action per backend response.        *)
EXTENDS Integers, Sequences, FiniteSets, TLC

\* ------------------------------------------------------------------ bounds
MaxAttempts == 2      \* upload invocations started in one behaviour
MaxLen == 3           \* longest record list a file yields
SmallBatch == 2       \* a batch size small enough for MaxLen to need two batches
MaxDays == 130        \* getHorizonFromDaysOut is applied to -MaxDays..MaxDays
MaxN == 7             \* SpecBatch: list lengths 1..MaxN (and the spec's 2500)
MaxB == 3             \* SpecBatch: batch sizes 1..MaxB (and BATCH_SIZE)

\* ------------------------------------------------------- program constants
BATCH_SIZE == 1000    \* AppConstants.DATABASE.BATCH_SIZE

Pages == {1, 2}
Slots == {1, 2}
Variants == {"excel", "csv", "shared", "manager"}
ReportIds == {"A", "B"}
NoId == ""            \* records[0].report_id is undefined / empty

VARIABLES
    variant,        \* page -> which script the page runs
    pageOf,         \* slot -> the page whose processedData the invocation reads
    batchSize,      \* AppConstants.DATABASE.BATCH_SIZE as configured
    processedData,  \* page -> the module-level record list
    isValid,        \* page -> uploaderState.isValid (shared variant)
    table,          \* the backend table occupancy_forecasts: a set of rows
    nextAtt,        \* number of upload invocations started so far
    task,           \* slot -> the frame of the running / last invocation
    swapped,        \* history: a list was replaced under a running invocation
    hzIn, hzOut,    \* SpecHorizon: argument and result of getHorizonFromDaysOut
    bt,             \* SpecBatch: the insert loop over a list of a given length
    fp,             \* SpecIngest: one file going through the processing pipeline
    vd,             \* SpecValidate: one call of validateTransformedData
    dc,             \* SpecDates: one serial date cell against an as-of date
    pf,             \* SpecFiles: one call of ExcelProcessor.processFiles
    pv,             \* SpecParse: one call of parseDate or parseNumber
    dm              \* SpecCache: one SupabaseDataManager, its cache and its uploads

vars == <<variant, pageOf, batchSize, processedData, isValid, table, nextAtt,
          task, swapped, hzIn, hzOut, bt, fp, vd, dc, pf, pv, dm>>

Min(a, b) == IF a < b THEN a ELSE b

\* ----------------------------------------------------------- record lists
\* A record is [rid, idx]: its report_id and its position in the list.
UniformList(r, n) == [k \in 1..n |-> [rid |-> r, idx |-> k]]

\* transformAmadeusData: every record carries metadata.reportId.
ExcelLists == {UniformList(r, n) : r \in ReportIds, n \in {1, MaxLen}}

\* transformCsvData: report_id is read per row from the report_id column;
\* it is undefined when the column is absent and may differ between rows.
MixedList ==
    <<[rid |-> "A", idx |-> 1], [rid |-> "B", idx |-> 2]>>

CsvLists == {UniformList("A", MaxLen), MixedList, UniformList(NoId, 1)}

\* validateDataRows: the rows it returns have no report_id field; the list
\* is empty when every row is filtered out.
SharedLists == {UniformList(NoId, n) : n \in {0, 1, MaxLen}}

\* uploadForecastData(transformedData): any non-validated caller array.
ManagerLists == ExcelLists \cup {MixedList, << >>}

ListsOf(v) ==
    CASE v = "excel" -> ExcelLists
      [] v = "csv" -> CsvLists
      [] v = "shared" -> SharedLists
      [] OTHER -> ManagerLists

\* Array.prototype.slice(i, j) on a 0-based index i.
Slice(data, i, j) == SubSeq(data, i + 1, Min(j, Len(data)))

\* ------------------------------------------------------------ the backend
\* A row is a record as inserted, tagged with the invocation that sent it.
RowsOf(batch, a) == {[rid |-> batch[k].rid, idx |-> batch[k].idx, att |-> a] :
                        k \in 1..Len(batch)}

\* .select('id').eq('report_id', reportId).limit(1)
Existing(tbl, reportId) == {r \in tbl : r.rid = reportId}

\* A delete that answers without error and removes nothing.
DeleteNothing(tbl, reportId) == tbl

\* .delete().eq('report_id', reportId)
DeleteRows(tbl, reportId) == {r \in tbl : r.rid # reportId}

UpsertRows(tbl, batch, a) ==
    {r \in tbl : \A k \in 1..Len(batch) :
                    r.rid # batch[k].rid \/ r.idx # batch[k].idx}
        \cup RowsOf(batch, a)

\* .insert(batch)
InsertRows(tbl, batch, a) == tbl \cup RowsOf(batch, a)

\* ------------------------------------------------------------ task frames
\* What the caller / user is shown. count is the number the message carries,
\* NoCount when the text is built from the backend's error.message alone.
NoCount == -1
Alert(type, text) == [type |-> type, text |-> text, count |-> NoCount]
NoAlert == Alert("none", "none")

IdleTask ==
    [pc |-> "idle", att |-> 0, reportId |-> NoId, i |-> 0, batch |-> << >>,
     arg |-> << >>, outcome |-> "none", failedAt |-> "none", alert |-> NoAlert,
     probe |-> "none", answer |-> "none", deleted |-> FALSE,
     list |-> << >>, replaced |-> FALSE,
     nProbe |-> 0, nDelete |-> 0, nInsert |-> 0, total |-> 0,
     sent |-> << >>, progress |-> << >>]


\* A catch block that empties the page's list as the finally block does
\* after a success.
FailClearsData(s, t, where, text) ==
    /\ task' = [task EXCEPT ![s] =
                   [t EXCEPT !.pc = "idle", !.outcome = "failed",
                             !.failedAt = where, !.batch = << >>,
                             !.alert = Alert("error", text)]]
    /\ processedData' = [processedData EXCEPT ![pageOf[s]] = << >>]
    /\ UNCHANGED isValid

\* ------------------------------------------------------ ends of an attempt
\* catch: showAlert(`Upload failed: ${error.message}`, 'error'); finally with
\* uploadSucceeded = false leaves processedData alone. The manager rethrows
\* new Error(`Upload failed: ${error.message}`).
Fail(s, t, where, text) ==
    /\ task' = [task EXCEPT ![s] =
                   [t EXCEPT !.pc = "idle", !.outcome = "failed",
                             !.failedAt = where, !.batch = << >>,
                             !.alert = Alert("error", text)]]
    /\ UNCHANGED <<processedData, isValid>>

\* The loop ran to its end: uploadSucceeded = true; the finally block (excel,
\* csv) or resetUploaderState(true) (shared) empties the page's processedData;
\* the manager returns totalUploaded.
SucceedFrame(s, t) ==
    [t EXCEPT !.pc = "idle", !.outcome = "success", !.batch = << >>,
              !.alert = IF variant[pageOf[s]] = "manager"
                        THEN [type |-> "returned", text |-> "totalUploaded",
                              count |-> t.total]
                        ELSE Alert("success", "File uploaded successfully!")]

Succeed(s, t) ==
    /\ task' = [task EXCEPT ![s] = SucceedFrame(s, t)]
    /\ IF variant[pageOf[s]] = "manager"
       THEN UNCHANGED <<processedData, isValid>>
       ELSE /\ processedData' = [processedData EXCEPT ![pageOf[s]] = << >>]
            /\ isValid' = IF variant[pageOf[s]] = "shared"
                          THEN [isValid EXCEPT ![pageOf[s]] = FALSE]
                          ELSE isValid

\* The list frame t of slot s reads now.
DataFor(s, t) ==
    IF variant[pageOf[s]] = "manager" THEN t.arg ELSE processedData[pageOf[s]]

\* The head of  for (let i = ...; i < data.length; i += BATCH_SIZE):
\* either the next batch is sliced and its insert issued, or the loop ends.
BatchAt(data, i, b) == Slice(data, i, i + b)

LoopHead(s, t) ==
    IF t.i < Len(DataFor(s, t))
    THEN /\ task' = [task EXCEPT ![s] =
                        [t EXCEPT !.pc = "insert",
                                  !.batch = BatchAt(DataFor(s, t), t.i, batchSize),
                                  !.nInsert = @ + 1]]
         /\ UNCHANGED <<processedData, isValid>>
    ELSE Succeed(s, t)

CancelStillUploads(s, t) == LoopHead(s, [t EXCEPT !.answer = "no"])

\* proceedWithUpload = false: showAlert('Upload cancelled by user.', 'info').
Cancel(s, t) ==
    /\ task' = [task EXCEPT ![s] =
                   [t EXCEPT !.pc = "idle", !.outcome = "cancelled",
                             !.answer = "no",
                             !.alert = Alert("info", "Upload cancelled by user.")]]
    /\ UNCHANGED <<processedData, isValid>>

\* --------------------------------------------------------------- actions
\* handleUpload / uploadForecastData is invoked: the guards before the try,
\* reportId = processedData[0].report_id, and the first backend call.
\* list is the record list as it is when the invocation starts.
NewTask(a, data) ==
    [IdleTask EXCEPT !.att = a, !.outcome = "running", !.list = data]

NoData(s, t, text) ==
    /\ task' = [task EXCEPT ![s] =
                   [t EXCEPT !.outcome = "nodata", !.alert = Alert("error", text)]]
    /\ UNCHANGED <<processedData, isValid>>

IssueProbe(s, t, data) ==
    /\ task' = [task EXCEPT ![s] =
                   [t EXCEPT !.pc = "probe", !.reportId = data[1].rid,
                             !.nProbe = 1]]
    /\ UNCHANGED <<processedData, isValid>>

StartUpload(s) ==
    /\ task[s].pc = "idle"
    /\ nextAtt < MaxAttempts
    /\ nextAtt' = nextAtt + 1
    /\ LET v == variant[pageOf[s]]
           data == processedData[pageOf[s]]
           t == NewTask(nextAtt + 1, data)
       IN CASE v = "excel" ->
                 IF Len(data) = 0 THEN NoData(s, t, "No data to upload.")
                 ELSE IssueProbe(s, t, data)
            [] v = "csv" ->
                 IF Len(data) = 0 THEN NoData(s, t, "No data to upload.")
                 ELSE IF data[1].rid # NoId THEN IssueProbe(s, t, data)
                 ELSE LoopHead(s, [t EXCEPT !.reportId = data[1].rid])
            [] v = "shared" ->
                 IF ~isValid[pageOf[s]] \/ Len(data) = 0
                 THEN NoData(s, t, "No valid data to upload.")
                 ELSE LoopHead(s, t)
            [] OTHER ->
                 \E arg \in ManagerLists, valid \in BOOLEAN :
                    LET u == [t EXCEPT !.arg = arg, !.list = arg] IN
                    IF Len(arg) = 0 THEN NoData(s, u, "No data to upload")
                    ELSE IF ~valid
                    THEN Fail(s, u, "validate", "Upload failed: Missing required field")
                    ELSE IssueProbe(s, u, arg)
    /\ UNCHANGED <<variant, pageOf, batchSize, table, swapped>>

\* The existence probe answers (select id ... eq report_id ... limit 1).
ProbeDone(s) ==
    /\ task[s].pc = "probe"
    /\ \E err \in BOOLEAN :
        LET t == task[s]
            found == Existing(table, t.reportId) # {}
            v == variant[pageOf[s]]
        IN IF v = "manager"
           THEN \* const { data: existing } = ...: the error is not looked at
                IF ~err /\ found
                THEN Fail(s, [t EXCEPT !.probe = "found"], "exists",
                          "Upload failed: Data for this report already exists in the database.")
                ELSE LoopHead(s, [t EXCEPT !.probe = IF err THEN "error" ELSE "absent"])
           ELSE IF err
                THEN Fail(s, [t EXCEPT !.probe = "error"], "check",
                          "Upload failed: Failed to check for existing report")
                ELSE IF found
                THEN /\ task' = [task EXCEPT ![s] =
                                    [t EXCEPT !.probe = "found", !.pc = "modal"]]
                     /\ UNCHANGED <<processedData, isValid>>
                ELSE LoopHead(s, [t EXCEPT !.probe = "absent"])
    /\ UNCHANGED <<variant, pageOf, batchSize, table, nextAtt, swapped>>

\* showModal('Overwrite Report?', ...) resolves with the user's answer.
Confirm(s) ==
    /\ task[s].pc = "modal"
    /\ \E yes \in BOOLEAN :
        IF yes
        THEN /\ task' = [task EXCEPT ![s] =
                            [@ EXCEPT !.answer = "yes", !.pc = "delete",
                                      !.nDelete = 1]]
             /\ UNCHANGED <<processedData, isValid>>
        ELSE Cancel(s, task[s])
    /\ UNCHANGED <<variant, pageOf, batchSize, table, nextAtt, swapped>>

DeleteErrorIgnored(s, t) == table' = table /\ LoopHead(s, t)

\* if (deleteError) throw new Error(`Failed to delete old report: ...`)
DeleteFailed(s, t) ==
    /\ Fail(s, t, "delete", "Upload failed: Failed to delete old report")
    /\ table' = table

\* The delete of the old report answers.
DeleteDone(s) ==
    /\ task[s].pc = "delete"
    /\ \E err \in BOOLEAN :
        IF err
        THEN DeleteFailed(s, task[s])
        ELSE /\ table' = DeleteRows(table, task[s].reportId)
             /\ LoopHead(s, [task[s] EXCEPT !.deleted = TRUE])
    /\ UNCHANGED <<variant, pageOf, batchSize, nextAtt, swapped>>

ProgressOfIndex(i, batch, data) == <<i, Len(data)>>

\* progress = ((i + batch.length) / processedData.length) * 100, kept as the
\* exact fraction <<numerator, denominator>>.
ProgressOf(i, batch, data) == <<i + Len(batch), Len(data)>>

InsertErrorIgnored(s, t) ==
    table' = table /\ LoopHead(s, [t EXCEPT !.i = @ + batchSize])

InsertFailedRollsBack(s, t) ==
    /\ Fail(s, t, "insert", "Upload failed: insert error")
    /\ table' = {r \in table : r.att # t.att}

\* if (error) throw error: the catch block reports it, nothing is undone.
InsertFailed(s, t) ==
    /\ Fail(s, t, "insert", "Upload failed: insert error")
    /\ table' = table

\* One batch insert answers; on success the loop goes round.
InsertDone(s) ==
    /\ task[s].pc = "insert"
    /\ \E err \in BOOLEAN :
        LET t == task[s] IN
        IF err
        THEN InsertFailed(s, t)
        ELSE /\ table' = InsertRows(table, t.batch, t.att)
             /\ LoopHead(s, [t EXCEPT
                    !.sent = @ \o t.batch,
                    !.total = @ + Len(t.batch),
                    !.progress = Append(@, ProgressOf(t.i, t.batch, DataFor(s, t))),
                    !.i = @ + batchSize])
    /\ UNCHANGED <<variant, pageOf, batchSize, nextAtt, swapped>>

\* History only: an invocation suspended on the page has had the list it
\* reads changed under it.
MarkReplaced(p, data) ==
    [s \in Slots |->
        IF pageOf[s] = p /\ task[s].pc # "idle" /\ processedData[p] # data
        THEN [task[s] EXCEPT !.replaced = TRUE] ELSE task[s]]

\* Files are handled while an upload is running or can still be started.
UploadAhead(p) ==
    \E s \in Slots :
        pageOf[s] = p /\ (task[s].pc # "idle" \/ nextAtt < MaxAttempts)

\* handleFile(file) succeeds: processedData = transformedData.
HandleFileOk(p) ==
    /\ variant[p] # "manager"
    /\ UploadAhead(p)
    /\ \E data \in ListsOf(variant[p]) :
        /\ variant[p] \in {"excel", "csv"} => Len(data) > 0
        /\ processedData' = [processedData EXCEPT ![p] = data]
        /\ isValid' = IF variant[p] = "shared"
                      THEN [isValid EXCEPT ![p] = TRUE] ELSE isValid
        /\ task' = MarkReplaced(p, data)
        /\ swapped' = (swapped \/ task' # task)
    /\ UNCHANGED <<variant, pageOf, batchSize, table, nextAtt>>

\* handleFile(file) fails: only the shared variant resets its state.
HandleFileFail(p) ==
    /\ variant[p] # "manager"
    /\ UploadAhead(p)
    /\ IF variant[p] = "shared"
       THEN /\ processedData' = [processedData EXCEPT ![p] = << >>]
            /\ isValid' = [isValid EXCEPT ![p] = FALSE]
            /\ task' = MarkReplaced(p, << >>)
            /\ swapped' = (swapped \/ task' # task)
       ELSE UNCHANGED <<processedData, isValid, task, swapped>>
    /\ UNCHANGED <<variant, pageOf, batchSize, table, nextAtt>>

\* ------------------------------------------------------- specifications
NoBatchRun == [n |-> 0, b |-> 0, i |-> 0, calls |-> 0, progress |-> << >>, done |-> FALSE]

\* The pipelines that a specification does not exercise stay switched off.
NoRun == [stage |-> "off"]

InitOther ==
    /\ hzIn = 0
    /\ hzOut = "none"
    /\ bt = NoBatchRun
    /\ fp = NoRun
    /\ vd = NoRun
    /\ dc = NoRun
    /\ pf = NoRun
    /\ pv = NoRun
    /\ dm = NoRun

InitUpload(pages) ==
    /\ variant \in [Pages -> Variants]
    /\ pageOf = pages
    /\ batchSize \in {SmallBatch, BATCH_SIZE}
    /\ processedData = [p \in Pages |-> << >>]
    /\ isValid = [p \in Pages |-> FALSE]
    /\ table = {}
    /\ nextAtt = 0
    /\ task = [s \in Slots |-> IdleTask]
    /\ swapped = FALSE

\* One session: one page, one invocation at a time.
Init ==
    /\ InitUpload([s \in Slots |-> 1])
    /\ variant[2] = variant[1]
    /\ InitOther

others == <<hzIn, hzOut, bt, fp, vd, dc, pf, pv, dm>>

Start1 == StartUpload(1) /\ UNCHANGED others
Probe1 == ProbeDone(1) /\ UNCHANGED others
Confirm1 == Confirm(1) /\ UNCHANGED others
Delete1 == DeleteDone(1) /\ UNCHANGED others
Insert1 == InsertDone(1) /\ UNCHANGED others
FileOk1 == HandleFileOk(1) /\ UNCHANGED others
FileFail1 == HandleFileFail(1) /\ UNCHANGED others

Next ==
    \/ Start1
    \/ Probe1
    \/ Confirm1
    \/ Delete1
    \/ Insert1
    \/ FileOk1
    \/ FileFail1

Spec == Init /\ [][Next]_vars

\* Two sessions, each on its own page with a file already processed, each
\* running handleUpload against the one, initially empty, backend table.
RaceVariants == {"excel", "csv"}

InitRace ==
    /\ variant \in [Pages -> RaceVariants]
    /\ pageOf = [s \in Slots |-> s]
    /\ batchSize \in {SmallBatch, BATCH_SIZE}
    /\ processedData \in [Pages -> ExcelLists \cup CsvLists]
    /\ \A p \in Pages : processedData[p] \in ListsOf(variant[p])
    /\ isValid = [p \in Pages |-> FALSE]
    /\ table = {}
    /\ nextAtt = 0
    /\ task = [s \in Slots |-> IdleTask]
    /\ swapped = FALSE
    /\ InitOther

StartR == \E s \in Slots : StartUpload(s) /\ UNCHANGED others
ProbeR == \E s \in Slots : ProbeDone(s) /\ UNCHANGED others
ConfirmR == \E s \in Slots : Confirm(s) /\ UNCHANGED others
DeleteR == \E s \in Slots : DeleteDone(s) /\ UNCHANGED others
InsertR == \E s \in Slots : InsertDone(s) /\ UNCHANGED others

NextRace ==
    \/ StartR
    \/ ProbeR
    \/ ConfirmR
    \/ DeleteR
    \/ InsertR

SpecRace == InitRace /\ [][NextRace]_vars



\* ------------------------------------------------ getHorizonFromDaysOut
\* AppConstants.HORIZON_DEFINITIONS in Object.entries order; a bound is
\* -Infinity ("neg"), Infinity ("pos") or a finite number ("fin").
Fin(n) == [inf |-> "fin", val |-> n]
NegInfinity == [inf |-> "neg", val |-> 0]
PosInfinity == [inf |-> "pos", val |-> 0]

HORIZON_DEFINITIONS ==
    << [key |-> "HISTORICAL", min |-> NegInfinity, max |-> Fin(-1)],
       [key |-> "NEAR_TERM", min |-> Fin(0), max |-> Fin(30)],
       [key |-> "MEDIUM_TERM", min |-> Fin(31), max |-> Fin(90)],
       [key |-> "LONG_TERM", min |-> Fin(91), max |-> PosInfinity] >>

FORECAST_HORIZONS ==
    [HISTORICAL |-> "Historical", NEAR_TERM |-> "Near_Term",
     MEDIUM_TERM |-> "Medium_Term", LONG_TERM |-> "Long_Term"]

\* daysOut >= config.min
GeBound(d, b) == b.inf = "neg" \/ (b.inf = "fin" /\ d >= b.val)

\* daysOut <= config.max
LeBound(d, b) == b.inf = "pos" \/ (b.inf = "fin" /\ d <= b.val)

InBucketStrictMax(d, config) ==
    GeBound(d, config.min) /\ LeBound(d + 1, config.max)

\* if (daysOut >= config.min && daysOut <= config.max)
InBucket(d, config) == GeBound(d, config.min) /\ LeBound(d, config.max)

Matching(d) == {k \in 1..Len(HORIZON_DEFINITIONS) : InBucket(d, HORIZON_DEFINITIONS[k])}

\* The first matching entry wins; the fall-through returns LONG_TERM.
getHorizonFromDaysOut(d) ==
    IF Matching(d) = {} THEN FORECAST_HORIZONS.LONG_TERM
    ELSE LET k == CHOOSE m \in Matching(d) : \A o \in Matching(d) : m <= o
         IN FORECAST_HORIZONS[HORIZON_DEFINITIONS[k].key]

InitHorizon ==
    /\ hzIn \in -MaxDays..MaxDays
    /\ hzOut = "none"
    /\ bt = NoBatchRun
    /\ fp = NoRun /\ vd = NoRun /\ dc = NoRun /\ pf = NoRun /\ pv = NoRun /\ dm = NoRun
    /\ InitUpload([s \in Slots |-> 1])
    /\ variant = [p \in Pages |-> "excel"]
    /\ batchSize = BATCH_SIZE

Classify ==
    /\ hzOut = "none"
    /\ hzOut' = getHorizonFromDaysOut(hzIn)
    /\ UNCHANGED <<hzIn, bt, variant, pageOf, batchSize, processedData,
                   isValid, table, nextAtt, task, swapped, fp, vd, dc, pf, pv, dm>>

NextHorizon == Classify

SpecHorizon == InitHorizon /\ [][NextHorizon]_vars

\* ------------------------------------------------------ the insert loop
\* The loop of handleUpload / uploadForecastData over a list of bt.n records
\* with batch size bt.b, every insert succeeding: the calls issued and the
\* progress reported.
InitBatch ==
    /\ bt \in [n : (1..MaxN) \cup {2500}, b : (1..MaxB) \cup {BATCH_SIZE},
               i : {0}, calls : {0}, progress : {<< >>}, done : {FALSE}]
    /\ hzIn = 0
    /\ hzOut = "none"
    /\ fp = NoRun /\ vd = NoRun /\ dc = NoRun /\ pf = NoRun /\ pv = NoRun /\ dm = NoRun
    /\ InitUpload([s \in Slots |-> 1])
    /\ variant = [p \in Pages |-> "excel"]
    /\ batchSize = BATCH_SIZE

BatchStep ==
    /\ ~bt.done
    /\ LET data == UniformList("A", bt.n) IN
       IF bt.i < Len(data)
       THEN LET batch == BatchAt(data, bt.i, bt.b) IN
            bt' = [bt EXCEPT !.calls = @ + 1,
                             !.progress = Append(@, ProgressOf(bt.i, batch, data)),
                             !.i = @ + bt.b]
       ELSE bt' = [bt EXCEPT !.done = TRUE]
    /\ UNCHANGED <<hzIn, hzOut, variant, pageOf, batchSize, processedData,
                   isValid, table, nextAtt, task, swapped, fp, vd, dc, pf, pv, dm>>

NextBatch == BatchStep

SpecBatch == InitBatch /\ [][NextBatch]_vars


\* ---------------------------------------------------- strings and numbers
\* A JavaScript string is the sequence of its characters.
Digits == <<"0", "1", "2", "3", "4", "5", "6", "7", "8", "9">>
UpperCase == <<"A", "B", "C", "D", "E", "F", "G", "H", "I", "J", "K", "L", "M",
               "N", "O", "P", "Q", "R", "S", "T", "U", "V", "W", "X", "Y", "Z">>
LowerCase == <<"a", "b", "c", "d", "e", "f", "g", "h", "i", "j", "k", "l", "m",
               "n", "o", "p", "q", "r", "s", "t", "u", "v", "w", "x", "y", "z">>

\* F applied to the value of e, with e evaluated once.
Bind(e, F(_)) == CHOOSE r \in {F(x) : x \in {e}} : TRUE

IsDigit(c) == \E i \in 1..Len(Digits) : Digits[i] = c
DigitVal(c) == (CHOOSE i \in 1..Len(Digits) : Digits[i] = c) - 1

LowerChar(c) ==
    IF \E i \in 1..Len(UpperCase) : UpperCase[i] = c
    THEN LowerCase[CHOOSE i \in 1..Len(UpperCase) : UpperCase[i] = c]
    ELSE c

toLowerCase(s) == Bind(s, LAMBDA str : [k \in 1..Len(str) |-> LowerChar(str[k])])

includes(s, sub) ==
    Bind(s, LAMBDA str :
        \E k \in 0..(Len(str) - Len(sub)) : SubSeq(str, k + 1, k + Len(sub)) = sub)

endsWith(s, suffix) ==
    Bind(s, LAMBDA str :
        /\ Len(str) >= Len(suffix)
        /\ SubSeq(str, Len(str) - Len(suffix) + 1, Len(str)) = suffix)

\* s.trim(): the part from the first to the last character that is no space
trim(s) ==
    Bind(s, LAMBDA str :
        Bind({k \in 1..Len(str) : str[k] # " "}, LAMBDA inked :
            IF inked = {} THEN << >>
            ELSE SubSeq(str, CHOOSE k \in inked : \A h \in inked : k <= h,
                             CHOOSE k \in inked : \A h \in inked : k >= h)))

\* s.split(sep) for a one-character separator: the list of the pieces. The
\* piece being read began at position from; i is the position looked at.
RECURSIVE SplitFrom(_, _, _, _)
SplitFrom(str, sep, from, i) ==
    IF i > Len(str) THEN <<SubSeq(str, from, Len(str))>>
    ELSE IF str[i] = sep
         THEN <<SubSeq(str, from, i - 1)>> \o SplitFrom(str, sep, i + 1, i + 1)
    ELSE SplitFrom(str, sep, from, i + 1)

split(s, sep) == Bind(s, LAMBDA str : SplitFrom(str, sep, 1, 1))

\* s.padStart(2, '0')
padStart(s) ==
    Bind(s, LAMBDA str :
        IF Len(str) >= 2 THEN str
        ELSE IF Len(str) = 1 THEN <<"0">> \o str
        ELSE <<"0", "0">>)

\* The decimal digits of n in a field of w characters, zero filled.
RECURSIVE PadNum(_, _)
PadNum(n, w) ==
    IF w = 0 THEN << >>
    ELSE PadNum(n \div 10, w - 1) \o <<Digits[(n % 10) + 1]>>

\* The number the first n characters of a string of digits denote.
RECURSIVE DigitsValue(_, _)
DigitsValue(str, n) ==
    IF n = 0 THEN 0 ELSE 10 * DigitsValue(str, n - 1) + DigitVal(str[n])

StrNum(s) == Bind(s, LAMBDA str : DigitsValue(str, Len(str)))

AllDigits(s) == Bind(s, LAMBDA str : str # << >> /\ \A k \in 1..Len(str) : IsDigit(str[k]))

\* ------------------------------------------------------------------ dates
\* Time values are kept in hours since 1970-01-01T00:00Z (the code's
\* milliseconds divided by 3 600 000); every value used is a whole hour.
IsLeap(y) == (y % 4 = 0 /\ y % 100 # 0) \/ y % 400 = 0

DaysInMonth(y, m) ==
    IF m = 2 THEN (IF IsLeap(y) THEN 29 ELSE 28)
    ELSE IF m \in {4, 6, 9, 11} THEN 30 ELSE 31

\* ECMAScript DayFromYear(y)
DayFromYear(y) ==
    365 * (y - 1970) + ((y - 1969) \div 4) - ((y - 1901) \div 100)
        + ((y - 1601) \div 400)

RECURSIVE DaysBeforeMonth(_, _)
DaysBeforeMonth(y, m) ==
    IF m <= 1 THEN 0 ELSE DaysBeforeMonth(y, m - 1) + DaysInMonth(y, m - 1)

\* ECMAScript MakeDay: the day number of the civil date y-m-d.
MakeDay(y, m, d) == DayFromYear(y) + DaysBeforeMonth(y, m) + d - 1

Years == 1900..2100

\* ECMAScript YearFromTime / MonthFromTime / DateFromTime on a day number.
YearFromDay(t) == CHOOSE y \in Years : DayFromYear(y) <= t /\ t < DayFromYear(y + 1)

MonthInYear(y, dy) ==
    CHOOSE m \in 1..12 :
        DaysBeforeMonth(y, m) <= dy /\ dy < DaysBeforeMonth(y, m) + DaysInMonth(y, m)

MonthFromDay(t) ==
    Bind(YearFromDay(t), LAMBDA y : MonthInYear(y, t - DayFromYear(y)))

DateFromDay(t) ==
    Bind(YearFromDay(t), LAMBDA y :
        t - DayFromYear(y) - DaysBeforeMonth(y, MonthInYear(y, t - DayFromYear(y))) + 1)

\* date.toISOString().split('T')[0] of a time value
toISODate(h) ==
    Bind(h \div 24, LAMBDA t :
        PadNum(YearFromDay(t), 4) \o <<"-">> \o PadNum(MonthFromDay(t), 2)
            \o <<"-">> \o PadNum(DateFromDay(t), 2))

\* A JavaScript number that may be NaN, and a time value that may be invalid.
Num(n) == [nan |-> FALSE, val |-> n]
NaN == [nan |-> TRUE, val |-> 0]

\* YYYY-MM-DD, the ECMAScript date-only form: read as UTC midnight.
IsISODate(s) ==
    /\ Len(s) = 10
    /\ s[5] = "-" /\ s[8] = "-"
    /\ \A k \in {1, 2, 3, 4, 6, 7, 9, 10} : IsDigit(s[k])

ValidCivil(y, m, d) == y \in Years /\ m \in 1..12 /\ d \in 1..DaysInMonth(y, m)

\* Y-M-D with unpadded month or day: not the ECMAScript form; the engine's
\* fallback parser reads it as midnight local time (tz hours east of UTC).
IsLooseDate(s) ==
    /\ ~IsISODate(s)
    /\ Bind(split(s, "-"), LAMBDA p :
           /\ Len(p) = 3
           /\ \A k \in 1..3 : AllDigits(p[k])
           /\ Len(p[1]) = 4 /\ Len(p[2]) <= 2 /\ Len(p[3]) <= 2)

\* M/D/YYYY: not an ECMAScript form either; engines read it as midnight
\* local time.
IsSlashDate(s) ==
    Bind(split(s, "/"), LAMBDA p :
        /\ Len(p) = 3
        /\ \A k \in 1..3 : AllDigits(p[k])
        /\ Len(p[1]) <= 2 /\ Len(p[2]) <= 2 /\ Len(p[3]) = 4)

\* The time value of the civil date that three digit strings name, shift
\* hours earlier; NaN when they name no date.
TimeOfCivil(ymd, shift) ==
    Bind(<<StrNum(ymd[1]), StrNum(ymd[2]), StrNum(ymd[3])>>, LAMBDA c :
        IF ValidCivil(c[1], c[2], c[3])
        THEN Num(24 * MakeDay(c[1], c[2], c[3]) - shift)
        ELSE NaN)

\* new Date(string).getTime()
DateParse(s, tz) ==
    Bind(s, LAMBDA str :
        IF IsISODate(str)
        THEN TimeOfCivil(<<SubSeq(str, 1, 4), SubSeq(str, 6, 7), SubSeq(str, 9, 10)>>, 0)
        ELSE IF IsLooseDate(str) THEN TimeOfCivil(split(str, "-"), tz)
        ELSE IF IsSlashDate(str)
        THEN Bind(split(str, "/"), LAMBDA p : TimeOfCivil(<<p[3], p[1], p[2]>>, tz))
        ELSE NaN)

\* Math.round(x / 24) for an integer x: halves round up.
RoundDays(x) == (2 * x + 24) \div 48

\* calculateDaysOut(forecastDate, asOfDate)
calculateDaysOut(forecastDate, asOfDate, tz) ==
    Bind(DateParse(forecastDate, tz), LAMBDA forecast :
        Bind(DateParse(asOfDate, tz), LAMBDA asOf :
            IF forecast.nan \/ asOf.nan THEN NaN
            ELSE Num(RoundDays(forecast.val - asOf.val))))

\* getHorizonFromDaysOut on a number that may be NaN: every comparison with
\* NaN is false, so the loop falls through to LONG_TERM.
HorizonOf(x) ==
    Bind(x, LAMBDA d :
        IF d.nan THEN FORECAST_HORIZONS.LONG_TERM ELSE getHorizonFromDaysOut(d.val))

\* ------------------------------------------------------------ cell values
\* A raw cell (and any JavaScript value that is null, a number or a string).
Null == [t |-> "null", n |-> 0, s |-> << >>]
N(n) == [t |-> "num", n |-> n, s |-> << >>]
S(s) == [t |-> "str", n |-> 0, s |-> s]

\* JavaScript truthiness: null, undefined, 0 and '' are falsy.
Truthy(v) == (v.t = "num" /\ v.n # 0) \/ (v.t = "str" /\ v.s # << >>)

\* row[j] for the 0-based column j; a column past the end reads undefined,
\* which every use below treats as it treats null.
At(row, j) == IF j >= 0 /\ j + 1 <= Len(row) THEN row[j + 1] ELSE Null

RECURSIVE NatStr(_)
NatStr(n) == IF n < 10 THEN <<Digits[n + 1]>> ELSE NatStr(n \div 10) \o <<Digits[(n % 10) + 1]>>

\* String(v || '')
StringOf(v) ==
    Bind(v, LAMBDA c :
        IF ~Truthy(c) THEN << >>
        ELSE IF c.t = "str" THEN c.s
        ELSE IF c.n < 0 THEN <<"-">> \o NatStr(-c.n) ELSE NatStr(c.n))

Processors == {"ExcelProcessor", "page"}

\* dateValue.replace(/^(Mon|Tue|Wed|Thu|Fri|Sat|Sun)\s+/i, '').trim()
DayNames == {<<"m", "o", "n">>, <<"t", "u", "e">>, <<"w", "e", "d">>, <<"t", "h", "u">>,
             <<"f", "r", "i">>, <<"s", "a", "t">>, <<"s", "u", "n">>}

StripDayName(s) ==
    Bind(s, LAMBDA str :
        IF Len(str) >= 4 /\ toLowerCase(SubSeq(str, 1, 3)) \in DayNames /\ str[4] = " "
        THEN trim(SubSeq(str, 4, Len(str)))
        ELSE trim(str))

\* A serial decoded from 1900-01-01 as day 1, without the two days by which
\* spreadsheet serials run ahead of it.
SerialFrom1900(ver, v, tz) ==
    IF ~Truthy(v) THEN Null ELSE S(toISODate((v.n - 25567) * 24))

\* cleaned.match(/^(\d{1,2})\/(\d{1,2})\/(\d{4})$/): the date is put together
\* from the three numbers as they stand.
SlashFallback(cleaned) ==
    IF IsSlashDate(cleaned)
    THEN Bind(split(cleaned, "/"), LAMBDA p :
             S(p[3] \o <<"-">> \o padStart(p[1]) \o <<"-">> \o padStart(p[2])))
    ELSE Null

\* The string branch of ExcelProcessor.parseDate.
ParseCleaned(cleaned, tz) ==
    Bind(DateParse(cleaned, tz), LAMBDA date :
        IF date.nan THEN SlashFallback(cleaned) ELSE S(toISODate(date.val)))

\* parseDate(dateValue): ExcelProcessor.parseDate strips a weekday name from
\* a string before new Date() and has a second try for MM/DD/YYYY; the page
\* script hands the string to new Date() as it is.
parseDate(ver, v, tz) ==
    Bind(v, LAMBDA dateValue :
        IF ~Truthy(dateValue) THEN Null
        ELSE IF dateValue.t = "num" THEN S(toISODate((dateValue.n - 25569) * 24))
        ELSE IF ver = "ExcelProcessor" THEN ParseCleaned(StripDayName(dateValue.s), tz)
        ELSE Bind(DateParse(dateValue.s, tz),
                  LAMBDA date : IF date.nan THEN Null ELSE S(toISODate(date.val))))

Keep(s) == SelectSeq(s, LAMBDA c : IsDigit(c) \/ c = "." \/ c = "-")

\* A decimal number: sign, whole part and the digits after the point
\* (without trailing zeros), or NaN.
Dec(neg, whole, frac) == [nan |-> FALSE, neg |-> neg, whole |-> whole, frac |-> frac]
DecNaN == [nan |-> TRUE, neg |-> FALSE, whole |-> 0, frac |-> << >>]

\* The number of digits str has from position from on.
DigitRun(str, from) ==
    CHOOSE k \in 0..(Len(str) + 1 - from) :
        /\ \A j \in from..(from + k - 1) : IsDigit(str[j])
        /\ from + k > Len(str) \/ ~IsDigit(str[from + k])

\* The digits without the zeros at their end.
TrimZeros(digits) ==
    SubSeq(digits, 1,
           CHOOSE k \in 0..Len(digits) :
               /\ k > 0 => digits[k] # "0"
               /\ \A j \in (k + 1)..Len(digits) : digits[j] = "0")

\* The number read from body, whose whole part has w digits and whose
\* fraction (after a point at w + 1, if there is one) has f digits.
DecOf(neg, body, w, f) ==
    IF w = 0 /\ f = 0 THEN DecNaN
    ELSE Bind(TrimZeros(SubSeq(body, w + 2, w + 1 + f)), LAMBDA frac :
             Bind(DigitsValue(body, w), LAMBDA whole :
                 Dec(neg /\ (whole # 0 \/ frac # << >>), whole, frac)))

\* parseFloat(cleaned) on a string of digits, points and minus signs: the
\* longest prefix that is a decimal literal.
UnsignedFloat(neg, body) ==
    Bind(DigitRun(body, 1), LAMBDA w :
        DecOf(neg, body, w,
              IF w + 1 <= Len(body) /\ body[w + 1] = "." THEN DigitRun(body, w + 2) ELSE 0))

parseFloat(cleaned) ==
    Bind(cleaned, LAMBDA str :
        IF str # << >> /\ Head(str) = "-" THEN UnsignedFloat(TRUE, Tail(str))
        ELSE UnsignedFloat(FALSE, str))

\* parseNumber(value) as a decimal number.
parseNumberValue(v) ==
    Bind(v, LAMBDA value :
        IF value.t = "num" THEN Dec(value.n < 0, IF value.n < 0 THEN 0 - value.n ELSE value.n, << >>)
        ELSE IF value.t = "null" THEN Dec(FALSE, 0, << >>)
        ELSE Bind(parseFloat(Keep(value.s)), LAMBDA parsed :
                 IF parsed.nan THEN Dec(FALSE, 0, << >>) ELSE parsed))

\* parseNumber(value) in the grids, whose cells hold whole numbers: the
\* signed whole part.
parseNumber(v) ==
    Bind(parseNumberValue(v), LAMBDA d : IF d.neg THEN 0 - d.whole ELSE d.whole)

\* ------------------------------------------------------------- file names
MAX_FILE_SIZE == 50 * 1024 * 1024

DotXlsx == <<".", "x", "l", "s", "x">>
DotXls == <<".", "x", "l", "s">>
supportedFormats == {DotXlsx, DotXls}

\* fileName.replace(/\.(xlsx|xls)$/, ''): the pattern has no i flag.
StripExtension(fileName) ==
    IF endsWith(fileName, DotXlsx) THEN SubSeq(fileName, 1, Len(fileName) - Len(DotXlsx))
    ELSE IF endsWith(fileName, DotXls) THEN SubSeq(fileName, 1, Len(fileName) - Len(DotXls))
    ELSE fileName

\* '.' + file.name.split('.').pop().toLowerCase()
ExtensionOf(fileName) ==
    Bind(split(fileName, "."), LAMBDA parts : <<".">> \o toLowerCase(parts[Len(parts)]))

\* validateFile(file): the error it throws, or "none".
validateFile(file) ==
    IF file.size > MAX_FILE_SIZE THEN "FILE_TOO_LARGE"
    ELSE IF ExtensionOf(file.name) \notin supportedFormats THEN "INVALID_FILE_FORMAT"
    ELSE "none"

\* ----------------------------------------------------- metadata extractor
AsOfDateLabel == <<"a", "s", " ", "o", "f", " ", "d", "a", "t", "e">>
CompSetLabel == <<"c", "o", "m", "p", " ", "s", "e", "t">>
Dash == <<"-">>

\* for (let i = 0; i < Math.min(20, rawData.length); i++)
METADATA_ROWS == 20

\* The metadata the file name yields. ExcelProcessor joins tokens 1..3 as
\* they are; the page script pads month and day with padStart(2, '0').
MetadataFromName(ver, fileName) ==
    Bind(split(StripExtension(fileName), "_"), LAMBDA parts :
    [fileName |-> fileName,
     reportId |-> StripExtension(fileName),
     asOfDate |-> IF Len(parts) < 4 THEN Null
                  ELSE IF ver = "ExcelProcessor"
                       THEN S(parts[2] \o Dash \o parts[3] \o Dash \o parts[4])
                       ELSE S(parts[2] \o Dash \o padStart(parts[3]) \o Dash \o padStart(parts[4])),
     city |-> IF Len(parts) < 4 THEN Null ELSE S(parts[1])])

NoFromFile == [asOfDateFromFile |-> Null, cityFromFile |-> Null]

\* ExcelProcessor.extractMetadata: the scan of the first rows always runs and
\* a later matching row overwrites what an earlier one set.
LabelIn(row) == toLowerCase(trim(StringOf(At(row, 1))))

\* One row of the scan: what it leaves in asOfDateFromFile / cityFromFile.
ContentRow(row, acc, tz) ==
    IF Len(row) < 3 THEN acc
    ELSE Bind(LabelIn(row), LAMBDA label :
             IF includes(label, AsOfDateLabel) /\ Truthy(At(row, 2))
             THEN [acc EXCEPT !.asOfDateFromFile =
                                  parseDate("ExcelProcessor", At(row, 2), tz)]
             ELSE IF includes(label, CompSetLabel) /\ Truthy(At(row, 2))
                  THEN [acc EXCEPT !.cityFromFile = S(trim(StringOf(At(row, 2))))]
             ELSE acc)

RECURSIVE ScanContent(_, _, _, _)
ScanContent(rawData, i, acc, tz) ==
    IF i >= Min(METADATA_ROWS, Len(rawData)) THEN acc
    ELSE Bind(ContentRow(rawData[i + 1], acc, tz), LAMBDA next :
             Bind(i + 1, LAMBDA j : ScanContent(rawData, j, next, tz)))

\* The page script's extractMetadata scans only when a field is unset and
\* lets a row set a field only while the field is still unset.
UnsetAsOfRow(row, label, metadata, tz) ==
    IF includes(label, AsOfDateLabel) /\ Truthy(At(row, 2)) /\ ~Truthy(metadata.asOfDate)
    THEN [metadata EXCEPT !.asOfDate = parseDate("page", At(row, 2), tz)]
    ELSE metadata

UnsetCityRow(row, label, metadata) ==
    IF includes(label, CompSetLabel) /\ Truthy(At(row, 2)) /\ ~Truthy(metadata.city)
    THEN [metadata EXCEPT !.city = S(trim(StringOf(At(row, 2))))]
    ELSE metadata

UnsetRow(row, metadata, tz) ==
    IF Len(row) < 3 THEN metadata
    ELSE Bind(LabelIn(row), LAMBDA label :
             Bind(UnsetAsOfRow(row, label, metadata, tz), LAMBDA m1 :
                 UnsetCityRow(row, label, m1)))

RECURSIVE ScanUnset(_, _, _, _)
ScanUnset(rawData, i, metadata, tz) ==
    IF i >= Min(METADATA_ROWS, Len(rawData)) THEN metadata
    ELSE Bind(UnsetRow(rawData[i + 1], metadata, tz), LAMBDA next :
             Bind(i + 1, LAMBDA j : ScanUnset(rawData, j, next, tz)))

\* The metadata before the final validation.
\* A merge in which a value found in the content replaces the name's.
ContentFirst(named, found) ==
    [named EXCEPT
        !.asOfDate = IF Truthy(found.asOfDateFromFile) THEN found.asOfDateFromFile ELSE @,
        !.city = IF Truthy(found.cityFromFile) THEN found.cityFromFile ELSE @]

\* if (!metadata.asOfDate && metadata.asOfDateFromFile) ...
\* if (!metadata.city && metadata.cityFromFile) ...
Fallback(named, found) ==
    [named EXCEPT
        !.asOfDate = IF ~Truthy(@) /\ Truthy(found.asOfDateFromFile)
                     THEN found.asOfDateFromFile ELSE @,
        !.city = IF ~Truthy(@) /\ Truthy(found.cityFromFile)
                 THEN found.cityFromFile ELSE @]

MergedMetadata(ver, rawData, fileName, tz) ==
    Bind(MetadataFromName(ver, fileName), LAMBDA named :
        IF ver = "ExcelProcessor"
        THEN Bind(ScanContent(rawData, 0, NoFromFile, tz), LAMBDA found :
                 Fallback(named, found))
        ELSE IF ~Truthy(named.asOfDate) \/ ~Truthy(named.city)
             THEN ScanUnset(rawData, 0, named, tz)
             ELSE named)

\* extractMetadata(rawData, fileName): the error thrown (or "none") and the
\* metadata returned.
extractMetadata(ver, rawData, fileName, tz) ==
    Bind(MergedMetadata(ver, rawData, fileName, tz), LAMBDA metadata :
        [error |-> IF ~Truthy(metadata.asOfDate) THEN "NO_AS_OF_DATE"
                   ELSE IF ~Truthy(metadata.city) THEN "NO_CITY"
                   ELSE "none",
         metadata |-> metadata])

\* ---------------------------------------------------------- header locator
CurrentWord == <<"c", "u", "r", "r", "e", "n", "t">>
PickupWord == <<"p", "i", "c", "k", "u", "p">>
VarWord == <<"v", "a", "r">>

IsHeaderRow(row) ==
    /\ includes(toLowerCase(StringOf(At(row, 3))), CurrentWord)
    /\ includes(toLowerCase(StringOf(At(row, 4))), PickupWord)
    /\ includes(toLowerCase(StringOf(At(row, 5))), VarWord)

\* findDataStartRow(rawData): i + 1 for the first matching 0-based row i,
\* -1 when no row matches. ExcelProcessor skips rows shorter than 6 cells.
\* A locator that answers with the header row itself, not the row after it.
HeaderRowItself(ver, rawData, i) ==
    IF \E k \in 1..Len(rawData) : IsHeaderRow(rawData[k])
    THEN (CHOOSE k \in 1..Len(rawData) :
              IsHeaderRow(rawData[k]) /\ \A h \in 1..(k - 1) : ~IsHeaderRow(rawData[h])) - 1
    ELSE -1

RECURSIVE FindFrom(_, _, _)
FindFrom(ver, rawData, i) ==
    IF i >= Len(rawData) THEN -1
    ELSE IF ver = "ExcelProcessor" /\ Len(rawData[i + 1]) < 6
         THEN Bind(i + 1, LAMBDA j : FindFrom(ver, rawData, j))
    ELSE IF IsHeaderRow(rawData[i + 1]) THEN i + 1
    ELSE Bind(i + 1, LAMBDA j : FindFrom(ver, rawData, j))

findDataStartRow(ver, rawData) == FindFrom(ver, rawData, 0)

\* --------------------------------------------------------- row transformer
segmentMappings ==
    <<[name |-> "Totals", currentCol |-> 3, pickupCol |-> 4, varianceCol |-> 5],
      [name |-> "Transient", currentCol |-> 6, pickupCol |-> 7, varianceCol |-> 8],
      [name |-> "Group_Sold", currentCol |-> 9, pickupCol |-> 10, varianceCol |-> 11],
      [name |-> "Unsold_Block", currentCol |-> 12, pickupCol |-> 13, varianceCol |-> 14],
      [name |-> "Other", currentCol |-> 15, pickupCol |-> 16, varianceCol |-> 17]>>

MARKET_SEGMENTS == {"Totals", "Transient", "Group_Sold", "Unsold_Block", "Other"}

\* if (!row || row.length < 18 || !row[2]) continue;   (ExcelProcessor)
\* if (!row || !row[2]) continue;                      (page script)
SkippedBeforeParse(ver, row) ==
    \/ ver = "ExcelProcessor" /\ Len(row) < 18
    \/ ~Truthy(At(row, 2))

\* The segment records of a row, last mapping first.
SegmentRecordsReversed(row, metadata, forecastDate, daysOut, forecastHorizon) ==
    [k \in 1..Len(segmentMappings) |->
        [as_of_date |-> metadata.asOfDate,
         report_id |-> S(metadata.reportId),
         city |-> metadata.city,
         forecast_date |-> forecastDate,
         market_segment |-> segmentMappings[Len(segmentMappings) + 1 - k].name,
         current_occupancy |->
             parseNumber(At(row, segmentMappings[Len(segmentMappings) + 1 - k].currentCol)) * 100,
         weekly_pickup |->
             parseNumber(At(row, segmentMappings[Len(segmentMappings) + 1 - k].pickupCol)),
         stly_variance |->
             parseNumber(At(row, segmentMappings[Len(segmentMappings) + 1 - k].varianceCol)),
         days_out |-> daysOut,
         forecast_horizon |-> forecastHorizon]]

\* The records one body row contributes: none when the row is skipped, one
\* per segment mapping otherwise. Cell values are whole numbers, so rounding
\* to two decimals leaves them as they are.
SegmentRecords(row, metadata, forecastDate, daysOut, forecastHorizon) ==
    [k \in 1..Len(segmentMappings) |->
        [as_of_date |-> metadata.asOfDate,
         report_id |-> S(metadata.reportId),
         city |-> metadata.city,
         forecast_date |-> forecastDate,
         market_segment |-> segmentMappings[k].name,
         current_occupancy |-> parseNumber(At(row, segmentMappings[k].currentCol)) * 100,
         weekly_pickup |-> parseNumber(At(row, segmentMappings[k].pickupCol)),
         stly_variance |-> parseNumber(At(row, segmentMappings[k].varianceCol)),
         days_out |-> daysOut,
         forecast_horizon |-> forecastHorizon]]

RowRecords(ver, row, metadata, tz) ==
    IF SkippedBeforeParse(ver, row) THEN << >>
    ELSE Bind(parseDate(ver, At(row, 2), tz), LAMBDA forecastDate :
             IF ~Truthy(forecastDate) THEN << >>
             ELSE Bind(calculateDaysOut(forecastDate.s, metadata.asOfDate.s, tz),
                       LAMBDA daysOut :
                           Bind(HorizonOf(daysOut), LAMBDA forecastHorizon :
                               SegmentRecords(row, metadata, forecastDate, daysOut,
                                              forecastHorizon))))

\* for (let i = dataStartRow; i < rawData.length; i++)
RECURSIVE transformDataRows(_, _, _, _, _)
transformDataRows(ver, rawData, metadata, i, tz) ==
    IF i >= Len(rawData) THEN << >>
    ELSE RowRecords(ver, rawData[i + 1], metadata, tz)
             \o Bind(i + 1, LAMBDA j : transformDataRows(ver, rawData, metadata, j, tz))

\* ---------------------------------------------------------------- validator
REQUIRED_COLUMNS == {"as_of_date", "city", "forecast_date", "market_segment",
                     "current_occupancy"}

\* for (let i = 0; i < Math.min(data.length, 50); i++)
SAMPLE_SIZE == 50

\* if (validationErrors.length > 10) throw
MAX_VALIDATION_ERRORS == 10

Abs(n) == IF n < 0 THEN 0 - n ELSE n

\* The messages one sampled record pushes on validationErrors.
RecordErrors(record) ==
    (IF record.current_occupancy < 0 \/ record.current_occupancy > 100 THEN 1 ELSE 0)
    + (IF Abs(record.stly_variance) > 100 THEN 1 ELSE 0)
    + (IF record.market_segment \notin MARKET_SEGMENTS THEN 1 ELSE 0)

\* validationErrors.length after the loop has visited records lo..hi, the
\* rows being summed by halves.
RECURSIVE CountErrors(_, _, _)
CountErrors(data, lo, hi) ==
    IF lo > hi THEN 0
    ELSE IF lo = hi THEN RecordErrors(data[lo])
    ELSE CountErrors(data, lo, (lo + hi) \div 2)
             + CountErrors(data, ((lo + hi) \div 2) + 1, hi)

\* A validator that checks every record, not a sample.
WholeListErrors(data) == CountErrors(data, 1, Len(data))

validationErrors(data) == CountErrors(data, 1, Min(Len(data), SAMPLE_SIZE))

\* A validator without the required-field check.
FieldCheckSkipped(ver, data) == IF Len(data) = 0 THEN "NO_DATA" ELSE "none"

\* validateTransformedData(data): the error thrown, or "none". Only
\* ExcelProcessor samples the value ranges; the page script stops after the
\* field check.
validateTransformedData(ver, data) ==
    IF Len(data) = 0 THEN "NO_DATA"
    ELSE IF \E field \in REQUIRED_COLUMNS : field \notin DOMAIN data[1]
         THEN "MISSING_FIELD"
    ELSE IF ver = "ExcelProcessor" /\ validationErrors(data) > MAX_VALIDATION_ERRORS
         THEN "TOO_MANY_ERRORS"
    ELSE "none"

\* ------------------------------------------------------ one file, end to end
\* processAmadeusFile(file): validateFile, extractMetadata, findDataStartRow,
\* the row transformer and the validator, with every intermediate value.
\* The error that stops the file before the row transformer runs, or "none".
EarlyError(fileError, extracted, dataStartRow) ==
    IF fileError # "none" THEN fileError
    ELSE IF extracted.error # "none" THEN extracted.error
    ELSE IF dataStartRow = -1 THEN "NO_DATA_SECTION"
    ELSE "none"

Outcome(ver, extracted, dataStartRow, early, transformed) ==
    Bind(IF early # "none" THEN early ELSE validateTransformedData(ver, transformed),
         LAMBDA error :
             [error |-> error,
              metadata |-> extracted.metadata,
              dataStartRow |-> dataStartRow,
              transformed |-> transformed,
              data |-> IF error = "none" THEN transformed ELSE << >>])

processAmadeusFile(ver, file, tz) ==
    Bind(extractMetadata(ver, file.grid, file.name, tz), LAMBDA extracted :
        Bind(findDataStartRow(ver, file.grid), LAMBDA dataStartRow :
            Bind(EarlyError(validateFile(file), extracted, dataStartRow), LAMBDA early :
                Bind(IF early # "none" THEN << >>
                     ELSE transformDataRows(ver, file.grid, extracted.metadata,
                                            dataStartRow, tz),
                     LAMBDA transformed :
                         Outcome(ver, extracted, dataStartRow, early, transformed)))))

\* ------------------------------------------------------- the csv page script
\* The column names transformCsvData looks up in the header row.
CsvColumns ==
    [as_of_date |-> <<"a", "s", "_", "o", "f", "_", "d", "a", "t", "e">>,
     report_id |-> <<"r", "e", "p", "o", "r", "t", "_", "i", "d">>,
     city |-> <<"c", "i", "t", "y">>,
     forecast_date |-> <<"f", "o", "r", "e", "c", "a", "s", "t", "_", "d", "a", "t", "e">>,
     market_segment |-> <<"m", "a", "r", "k", "e", "t", "_", "s", "e", "g", "m", "e", "n", "t">>,
     current_occupancy |-> <<"c", "u", "r", "r", "e", "n", "t", "_", "o", "c", "c", "u", "p", "a", "n", "c", "y">>,
     stly_variance |-> <<"s", "t", "l", "y", "_", "v", "a", "r", "i", "a", "n", "c", "e">>,
     weekly_pickup |-> <<"w", "e", "e", "k", "l", "y", "_", "p", "i", "c", "k", "u", "p">>,
     days_out |-> <<"d", "a", "y", "s", "_", "o", "u", "t">>,
     forecast_horizon |-> <<"f", "o", "r", "e", "c", "a", "s", "t", "_", "h", "o", "r", "i", "z", "o", "n">>]

\* A cell that spells one of the enumeration labels, as that label.
Labels ==
    <<[text |-> <<"T", "o", "t", "a", "l", "s">>, label |-> "Totals"],
      [text |-> <<"T", "r", "a", "n", "s", "i", "e", "n", "t">>, label |-> "Transient"],
      [text |-> <<"G", "r", "o", "u", "p", "_", "S", "o", "l", "d">>, label |-> "Group_Sold"],
      [text |-> <<"U", "n", "s", "o", "l", "d", "_", "B", "l", "o", "c", "k">>, label |-> "Unsold_Block"],
      [text |-> <<"O", "t", "h", "e", "r">>, label |-> "Other"],
      [text |-> <<"H", "i", "s", "t", "o", "r", "i", "c", "a", "l">>, label |-> "Historical"],
      [text |-> <<"N", "e", "a", "r", "_", "T", "e", "r", "m">>, label |-> "Near_Term"],
      [text |-> <<"M", "e", "d", "i", "u", "m", "_", "T", "e", "r", "m">>, label |-> "Medium_Term"],
      [text |-> <<"L", "o", "n", "g", "_", "T", "e", "r", "m">>, label |-> "Long_Term"]>>

LabelOf(v) ==
    IF v.t = "str" /\ \E k \in 1..Len(Labels) : Labels[k].text = v.s
    THEN Labels[CHOOSE k \in 1..Len(Labels) : Labels[k].text = v.s].label
    ELSE IF v.t = "null" THEN "undefined" ELSE "unlisted"

\* header.findIndex(h => h === name) on the trimmed, lower-cased header
findIndex(header, name) ==
    Bind({k \in 1..Len(header) : toLowerCase(trim(StringOf(header[k]))) = name},
         LAMBDA found :
             IF found = {} THEN -1
             ELSE (CHOOSE k \in found : \A h \in found : k <= h) - 1)

CsvRequired == {"as_of_date", "forecast_date", "market_segment", "current_occupancy"}

CsvRecord(header, row, tz) ==
    [as_of_date |-> parseDate("page", At(row, findIndex(header, CsvColumns.as_of_date)), tz),
     report_id |-> At(row, findIndex(header, CsvColumns.report_id)),
     city |-> At(row, findIndex(header, CsvColumns.city)),
     forecast_date |->
         parseDate("page", At(row, findIndex(header, CsvColumns.forecast_date)), tz),
     market_segment |-> LabelOf(At(row, findIndex(header, CsvColumns.market_segment))),
     current_occupancy |->
         parseNumber(At(row, findIndex(header, CsvColumns.current_occupancy))),
     stly_variance |-> parseNumber(At(row, findIndex(header, CsvColumns.stly_variance))),
     weekly_pickup |-> parseNumber(At(row, findIndex(header, CsvColumns.weekly_pickup))),
     days_out |-> Num(parseNumber(At(row, findIndex(header, CsvColumns.days_out)))),
     forecast_horizon |-> LabelOf(At(row, findIndex(header, CsvColumns.forecast_horizon)))]

\* transformCsvData(rawData): rawData[0] of an empty sheet is undefined and
\* the map on it throws.
transformCsvData(rawData, tz) ==
    IF Len(rawData) = 0 THEN [error |-> "TYPE_ERROR", data |-> << >>]
    ELSE IF \E col \in CsvRequired : findIndex(rawData[1], CsvColumns[col]) = -1
         THEN [error |-> "MISSING_COLUMN", data |-> << >>]
    ELSE [error |-> "none",
          data |-> SelectSeq([k \in 1..(Len(rawData) - 1) |->
                                  CsvRecord(rawData[1], rawData[k + 1], tz)],
                             LAMBDA r : Truthy(r.as_of_date) /\ Truthy(r.forecast_date))]

DotCsv == <<".", "c", "s", "v">>

validateCsvFile(file) ==
    IF file.size > MAX_FILE_SIZE THEN "FILE_TOO_LARGE"
    ELSE IF ExtensionOf(file.name) # DotCsv THEN "INVALID_FILE_FORMAT"
    ELSE "none"

\* processCsvFile(file) behind handleFile's validateFile
CsvOutcome(file, result, error) ==
    [error |-> error,
     metadata |-> [fileName |-> file.name, reportId |-> << >>,
                   asOfDate |-> Null, city |-> Null],
     dataStartRow |-> 1,
     transformed |-> result.data,
     data |-> IF error = "none" THEN result.data ELSE << >>]

processCsvFile(file, tz) ==
    Bind(transformCsvData(file.grid, tz), LAMBDA result :
        Bind(IF validateCsvFile(file) # "none" THEN validateCsvFile(file)
             ELSE IF result.error # "none" THEN result.error
             ELSE validateTransformedData("page", result.data),
             LAMBDA error : CsvOutcome(file, result, error)))

\* ----------------------------------------------------------- input files
\* Local time zones, in hours east of UTC.
TimeZones == {-8, 0, 13}

FileNames ==
    <<<<"E", "d", "m", "o", "n", "t", "o", "n", "_", "2", "0", "2", "4", "_", "1", "2", "_", "1", "0", ".", "x", "l", "s", "x">>,
      <<"E", "d", "m", "o", "n", "t", "o", "n", "_", "2", "0", "2", "4", "_", "1", "_", "5", ".", "x", "l", "s", "x">>,
      <<"R", "e", "p", "o", "r", "t", ".", "x", "l", "s">>,
      <<"E", "d", "m", "o", "n", "t", "o", "n", "_", "2", "0", "2", "4", "_", "1", "2", "_", "1", "0", ".", "X", "L", "S", "X">>,
      <<"_", "2", "0", "2", "4", "_", "1", "2", "_", "1", "0", ".", "x", "l", "s", "x">>,
      <<"n", "o", "t", "e", "s", ".", "t", "x", "t">>>>

Blank(n) == [k \in 1..n |-> Null]

HeaderRow ==
    <<Null, Null, S(<<"D", "a", "t", "e">>), S(<<"C", "u", "r", "r", "e", "n", "t">>),
      S(<<"W", "k", "l", "y", " ", "P", "i", "c", "k", "u", "p">>), S(<<"S", "T", "L", "Y", " ", "V", "a", "r">>)>> \o Blank(12)

\* The same signature in capitals, in a row of exactly six cells.
ShoutedHeaderRow ==
    <<Null, Null, Null, S(<<"C", "U", "R", "R", "E", "N", "T">>), S(<<"P", "I", "C", "K", "U", "P">>),
      S(<<"V", "A", "R", "I", "A", "N", "C", "E">>)>>

\* Two of the three header words only.
AlmostHeaderRow ==
    <<Null, Null, Null, S(<<"C", "u", "r", "r", "e", "n", "t">>), S(<<"P", "i", "c", "k", "u", "p">>),
      S(<<"T", "o", "t", "a", "l">>)>>

BodyRow(dateCell, occupancy) ==
    <<Null, Null, dateCell>> \o [k \in 1..15 |-> N(occupancy)]

\* A body row cut off after its first segment.
ShortRow(dateCell) == <<Null, Null, dateCell, N(1), N(0), N(0)>>

LabelRow(label, value) == <<Null, S(label), value>>

AsOfRow(value) == LabelRow(<<"A", "s", " ", "o", "f", " ", "D", "a", "t", "e", ":">>, value)
CompSetRow(value) == LabelRow(<<" ", " ", "C", "o", "m", "p", " ", "S", "e", "t", " ">>, value)

BlankRows(n) == [k \in 1..n |-> << >>]

Date_2024_12_10 == <<"2", "0", "2", "4", "-", "1", "2", "-", "1", "0">>
Date_2024_11_30 == <<"2", "0", "2", "4", "-", "1", "1", "-", "3", "0">>
Calgary == <<"C", "a", "l", "g", "a", "r", "y">>
Unparseable == <<"n", "/", "a">>

Grids ==
    <<\* header, two body rows
      <<HeaderRow, BodyRow(N(45432), 1), BodyRow(N(45659), 0)>>,
      \* metadata in the content, then the header
      <<AsOfRow(S(Date_2024_11_30)), CompSetRow(S(Calgary)), HeaderRow,
        BodyRow(N(45659), 1)>>,
      \* no header row
      <<AlmostHeaderRow, BodyRow(N(45432), 1)>>,
      \* two body rows with the same forecast date
      <<AlmostHeaderRow, HeaderRow, BodyRow(N(45659), 1),
        BodyRow(N(45659), 0)>>,
      \* every body row skipped
      <<HeaderRow, BodyRow(S(Unparseable), 1), BodyRow(Null, 1), << >>>>,
      \* two header rows, the first short and in capitals
      <<ShoutedHeaderRow, BodyRow(N(45432), 1), HeaderRow, BodyRow(N(45659), 1),
        ShortRow(N(45660))>>,
      \* metadata rows below the first METADATA_ROWS rows
      BlankRows(METADATA_ROWS) \o
          <<AsOfRow(S(Date_2024_11_30)), CompSetRow(S(Calgary)), HeaderRow,
            BodyRow(N(45659), 1)>>,
      \* metadata rows whose values do not count, and a later as-of row
      <<CompSetRow(S(<<" ", " ">>)), AsOfRow(S(Date_2024_11_30)),
        AsOfRow(S(Unparseable)), HeaderRow, BodyRow(N(45659), 1)>>>>

ExcelFiles ==
    {[name |-> FileNames[n], size |-> 1024, grid |-> Grids[g]] :
         n \in 1..Len(FileNames), g \in 1..Len(Grids)}
    \cup {[name |-> FileNames[1], size |-> MAX_FILE_SIZE + 1, grid |-> Grids[1]]}

CsvHeader ==
    <<S(CsvColumns.as_of_date), S(CsvColumns.report_id), S(CsvColumns.city),
      S(CsvColumns.forecast_date), S(CsvColumns.market_segment),
      S(CsvColumns.current_occupancy), S(CsvColumns.days_out),
      S(CsvColumns.forecast_horizon)>>

CsvRow(forecastDate, daysOut, horizon) ==
    <<S(Date_2024_12_10), S(<<"R", "1">>), S(Calgary), forecastDate,
      S(<<"T", "o", "t", "a", "l", "s">>), N(50), daysOut, horizon>>

CsvGrids ==
    <<\* consistent rows
      <<CsvHeader,
        CsvRow(S(<<"2", "0", "2", "5", "-", "0", "1", "-", "0", "2">>), N(23), S(<<"N", "e", "a", "r", "_", "T", "e", "r", "m">>)),
        CsvRow(S(<<"2", "0", "2", "5", "-", "0", "6", "-", "0", "1">>), N(173), S(<<"L", "o", "n", "g", "_", "T", "e", "r", "m">>))>>,
      \* a horizon column that disagrees with days_out
      <<CsvHeader,
        CsvRow(S(<<"2", "0", "2", "5", "-", "0", "1", "-", "0", "2">>), N(23), S(<<"L", "o", "n", "g", "_", "T", "e", "r", "m">>))>>,
      \* a row without dates is filtered out; nothing is left
      <<CsvHeader, CsvRow(Null, N(23), S(<<"N", "e", "a", "r", "_", "T", "e", "r", "m">>))>>,
      \* a required column is missing
      <<SubSeq(CsvHeader, 1, 3), <<S(Date_2024_12_10), S(<<"R", "1">>), S(Calgary)>>>>,
      \* an empty sheet
      << >>>>

CsvFileNames == <<<<"f", "o", "r", "e", "c", "a", "s", "t", ".", "c", "s", "v">>, <<"f", "o", "r", "e", "c", "a", "s", "t", ".", "C", "S", "V">>, <<"E", "d", "m", "o", "n", "t", "o", "n", "_", "2", "0", "2", "4", "_", "1", "2", "_", "1", "0", ".", "x", "l", "s", "x">>>>

CsvFiles ==
    {[name |-> CsvFileNames[n], size |-> 1024, grid |-> CsvGrids[g]] :
         n \in 1..Len(CsvFileNames), g \in 1..Len(CsvGrids)}

Versions == Processors \cup {"csv"}

FilesOf(ver) == IF ver = "csv" THEN CsvFiles ELSE ExcelFiles

\* ------------------------------------------------ one file through the page
\* handleFile(file) / ExcelProcessor.processAmadeusFile(file): the file is
\* checked, read by a FileReader and, in reader.onload, transformed and
\* validated. fp.processedData is what the caller holds afterwards.
Process(ver, file, tz) ==
    IF ver = "csv" THEN processCsvFile(file, tz) ELSE processAmadeusFile(ver, file, tz)

CheckFile(ver, file) == IF ver = "csv" THEN validateCsvFile(file) ELSE validateFile(file)

NoResult ==
    [error |-> "pending",
     metadata |-> [fileName |-> << >>, reportId |-> << >>, asOfDate |-> Null, city |-> Null],
     dataStartRow |-> -1, transformed |-> << >>, data |-> << >>]

InitIngest ==
    /\ fp \in {[stage |-> "selected", ver |-> ver, tz |-> tz, file |-> file,
                 run |-> NoResult, processedData |-> << >>] :
                    ver \in Versions, tz \in TimeZones, file \in ExcelFiles \cup CsvFiles}
    /\ fp.file \in FilesOf(fp.ver)
    /\ hzIn = 0 /\ hzOut = "none" /\ bt = NoBatchRun
    /\ vd = NoRun /\ dc = NoRun /\ pf = NoRun /\ pv = NoRun /\ dm = NoRun
    /\ InitUpload([s \in Slots |-> 1])
    /\ variant = [p \in Pages |-> "excel"]
    /\ batchSize = BATCH_SIZE

ingestOthers == <<variant, pageOf, batchSize, processedData, isValid, table, nextAtt,
                  task, swapped, hzIn, hzOut, bt, vd, dc, pf, pv, dm>>

\* validateFile throws: the catch reports it and nothing is read.
FileRejected ==
    /\ fp.stage = "selected"
    /\ CheckFile(fp.ver, fp.file) # "none"
    /\ fp' = [fp EXCEPT !.stage = "done",
                        !.run = [NoResult EXCEPT !.error = CheckFile(fp.ver, fp.file)]]
    /\ UNCHANGED ingestOthers

\* reader.readAsArrayBuffer(file)
ReadFile ==
    /\ fp.stage = "selected"
    /\ CheckFile(fp.ver, fp.file) = "none"
    /\ fp' = [fp EXCEPT !.stage = "reading"]
    /\ UNCHANGED ingestOthers

\* reader.onload: transform, validate, resolve or reject; on resolve the
\* caller stores the records.
FileLoaded ==
    /\ fp.stage = "reading"
    /\ LET run == Process(fp.ver, fp.file, fp.tz) IN
       fp' = [fp EXCEPT !.stage = "done",
                        !.run = run,
                        !.processedData = IF run.error = "none" THEN run.data ELSE @]
    /\ UNCHANGED ingestOthers

\* reader.onerror
FileUnreadable ==
    /\ fp.stage = "reading"
    /\ fp' = [fp EXCEPT !.stage = "done", !.run = [NoResult EXCEPT !.error = "READ_ERROR"]]
    /\ UNCHANGED ingestOthers

NextIngest == FileRejected \/ ReadFile \/ FileLoaded \/ FileUnreadable

SpecIngest == InitIngest /\ [][NextIngest]_vars

\* ------------------------------------------- record lists under validation
\* The validator on its own: the step of processAmadeusFile from a record
\* list to resolve or reject. The lists are those it can be handed: empty,
\* short, up to and beyond the sample, with a first record that lacks a
\* field, and with rows that violate the range checks at chosen places.
ListLen == 200
MaxBad == 12

WellFormed(i) ==
    [as_of_date |-> S(Date_2024_12_10),
     report_id |-> S(<<"R", "1">>),
     city |-> S(Calgary),
     forecast_date |-> S(Date_2024_12_10),
     market_segment |-> segmentMappings[((i - 1) % Len(segmentMappings)) + 1].name,
     current_occupancy |-> 50 + (i % 51),
     weekly_pickup |-> 0,
     stly_variance |-> (i % 201) - 100,
     days_out |-> Num(0),
     forecast_horizon |-> FORECAST_HORIZONS.NEAR_TERM]

\* A row outside [0, 100], above or below; in breadth "all" it fails the
\* variance check and the segment check as well.
OutOfRange(i, breadth) ==
    IF breadth = "occupancy"
    THEN [WellFormed(i) EXCEPT !.current_occupancy = IF i % 2 = 0 THEN 101 ELSE -1]
    ELSE [WellFormed(i) EXCEPT !.current_occupancy = IF i % 2 = 0 THEN 101 ELSE -1,
                               !.stly_variance = IF i % 2 = 0 THEN 101 ELSE -101,
                               !.market_segment = "Corporate"]

Places == {"first", "last", "sampleEnd", "afterSample"}

\* Where the k out-of-range rows of a list of n records are.
BadRows(n, k, place) ==
    IF place = "first" THEN 1..k
    ELSE IF place = "last" THEN (n - k + 1)..n
    ELSE IF place = "sampleEnd" THEN (SAMPLE_SIZE - k + 1)..SAMPLE_SIZE
    ELSE (SAMPLE_SIZE + 1)..(SAMPLE_SIZE + k)

Without(record, field) == [f \in DOMAIN record \ {field} |-> record[f]]

Absent == {"none"} \cup REQUIRED_COLUMNS

RecordList(n, k, place, breadth, absent) ==
    Bind(BadRows(n, k, place), LAMBDA bad :
        [i \in 1..n |->
            Bind(IF i \in bad THEN OutOfRange(i, breadth) ELSE WellFormed(i), LAMBDA record :
                IF i = 1 /\ absent # "none" THEN Without(record, absent) ELSE record)])

ListLengths == {0, 1, SAMPLE_SIZE, SAMPLE_SIZE + 1, ListLen}

RecordLists ==
    {RecordList(c[1], c[2], c[3], c[4], c[5]) :
        c \in {d \in ListLengths \X (0..MaxBad) \X Places \X {"occupancy", "all"} \X Absent :
                  /\ BadRows(d[1], d[2], d[3]) \subseteq 1..d[1]
                  /\ d[2] = 0 => (d[3] = "first" /\ d[4] = "occupancy")
                  /\ d[5] # "none" => d[2] \in {0, MaxBad}}}

InitValidate ==
    /\ vd \in {[stage |-> "transformed", ver |-> ver, data |-> data,
                 error |-> "pending", processedData |-> << >>] :
                    ver \in Processors, data \in RecordLists}
    /\ hzIn = 0 /\ hzOut = "none" /\ bt = NoBatchRun
    /\ fp = NoRun /\ dc = NoRun /\ pf = NoRun /\ pv = NoRun /\ dm = NoRun
    /\ InitUpload([s \in Slots |-> 1])
    /\ variant = [p \in Pages |-> "excel"]
    /\ batchSize = BATCH_SIZE

validateOthers == <<variant, pageOf, batchSize, processedData, isValid, table, nextAtt,
                    task, swapped, hzIn, hzOut, bt, fp, dc, pf, pv, dm>>

\* validateTransformedData returns: resolve(transformedData), and the caller
\* stores the records for the upload.
ValidationPassed ==
    /\ vd.stage = "transformed"
    /\ validateTransformedData(vd.ver, vd.data) = "none"
    /\ vd' = [vd EXCEPT !.stage = "done", !.error = "none", !.processedData = vd.data]
    /\ UNCHANGED validateOthers

\* validateTransformedData throws: reject(error); the caller's catch shows
\* the message and stores nothing.
ValidationFailed ==
    /\ vd.stage = "transformed"
    /\ validateTransformedData(vd.ver, vd.data) # "none"
    /\ vd' = [vd EXCEPT !.stage = "done",
                        !.error = validateTransformedData(vd.ver, vd.data)]
    /\ UNCHANGED validateOthers

NextValidate == ValidationPassed \/ ValidationFailed

SpecValidate == InitValidate /\ [][NextValidate]_vars

\* ------------------------------------------------- one body row and its date
\* The row transformer on a sheet of the header and one body row whose
\* forecast-date cell is a spreadsheet serial. As-of dates are given with
\* their day number since 1970-01-01; the third is the unpadded form that
\* only ExcelProcessor.extractMetadata takes from a file name.
SerialSpan == 230

Serials == {0} \cup ((45432 - SerialSpan)..(45432 + SerialSpan))

AsOfDates ==
    <<[text |-> Date_2024_12_10, day |-> 20067, padded |-> TRUE],
      [text |-> <<"2", "0", "2", "4", "-", "0", "2", "-", "2", "9">>, day |-> 19782,
       padded |-> TRUE],
      [text |-> <<"2", "0", "2", "5", "-", "1", "-", "5">>, day |-> 20093, padded |-> FALSE]>>

MetadataAsOf(asOfDate) ==
    [fileName |-> FileNames[3], reportId |-> StripExtension(FileNames[3]),
     asOfDate |-> S(asOfDate), city |-> S(Calgary)]

InitDates ==
    /\ dc \in {[stage |-> "row", ver |-> ver, tz |-> tz, n |-> n, asOf |-> a,
                 records |-> << >>] :
                    ver \in Processors, tz \in TimeZones, n \in Serials,
                    a \in 1..Len(AsOfDates)}
    /\ dc.ver = "page" => AsOfDates[dc.asOf].padded
    /\ hzIn = 0 /\ hzOut = "none" /\ bt = NoBatchRun
    /\ fp = NoRun /\ vd = NoRun /\ pf = NoRun /\ pv = NoRun /\ dm = NoRun
    /\ InitUpload([s \in Slots |-> 1])
    /\ variant = [p \in Pages |-> "excel"]
    /\ batchSize = BATCH_SIZE

datesOthers == <<variant, pageOf, batchSize, processedData, isValid, table, nextAtt,
                 task, swapped, hzIn, hzOut, bt, fp, vd, pf, pv, dm>>

SheetOf(n) == <<HeaderRow, BodyRow(N(n), 1)>>

\* if (!row || row.length < 18 || !row[2]) continue;
RowSkipped ==
    /\ dc.stage = "row"
    /\ SkippedBeforeParse(dc.ver, SheetOf(dc.n)[2])
    /\ dc' = [dc EXCEPT !.stage = "done",
                        !.records = transformDataRows(dc.ver, SheetOf(dc.n),
                                        MetadataAsOf(AsOfDates[dc.asOf].text), 1, dc.tz)]
    /\ UNCHANGED datesOthers

\* parseDate, calculateDaysOut, getHorizonFromDaysOut and one record per
\* segment mapping.
RowTransformed ==
    /\ dc.stage = "row"
    /\ ~SkippedBeforeParse(dc.ver, SheetOf(dc.n)[2])
    /\ dc' = [dc EXCEPT !.stage = "done",
                        !.records = transformDataRows(dc.ver, SheetOf(dc.n),
                                        MetadataAsOf(AsOfDates[dc.asOf].text), 1, dc.tz)]
    /\ UNCHANGED datesOthers

NextDates == RowSkipped \/ RowTransformed

SpecDates == InitDates /\ [][NextDates]_vars

\* ------------------------------------------------------- a batch of files
\* ExcelProcessor.processFiles(files, onProgress): the files are processed
\* one after the other, each in its own try/catch; pf.results is the list
\* returned, pf.events what onProgress was called with. The browser is in
\* UTC.
MaxFiles == 3

FilePool ==
    {[name |-> FileNames[1], size |-> 1024, grid |-> Grids[1]],
     [name |-> FileNames[3], size |-> 1024, grid |-> Grids[2]],
     [name |-> FileNames[3], size |-> 1024, grid |-> Grids[1]],
     [name |-> FileNames[6], size |-> 1024, grid |-> Grids[1]]}

FileLists == UNION {[1..n -> FilePool] : n \in 0..MaxFiles}

InitFiles ==
    /\ pf \in {[stage |-> "called", files |-> files, tz |-> 0, onProgress |-> cb,
                 totalProcessed |-> 0, results |-> << >>, events |-> << >>,
                 error |-> "none",
                 summary |-> [totalFiles |-> 0, successfulFiles |-> 0, failedFiles |-> 0,
                              totalRecords |-> 0, errors |-> << >>]] :
                    files \in FileLists, cb \in BOOLEAN}
    /\ hzIn = 0 /\ hzOut = "none" /\ bt = NoBatchRun
    /\ fp = NoRun /\ vd = NoRun /\ dc = NoRun /\ pv = NoRun /\ dm = NoRun
    /\ InitUpload([s \in Slots |-> 1])
    /\ variant = [p \in Pages |-> "excel"]
    /\ batchSize = BATCH_SIZE

filesOthers == <<variant, pageOf, batchSize, processedData, isValid, table, nextAtt,
                 task, swapped, hzIn, hzOut, bt, fp, vd, dc, pv, dm>>

\* if (!Array.isArray(files) || files.length === 0) throw
NoFilesProvided ==
    /\ pf.stage = "called"
    /\ Len(pf.files) = 0
    /\ pf' = [pf EXCEPT !.stage = "threw", !.error = "NO_FILES"]
    /\ UNCHANGED filesOthers

\* The file the loop is at, and what onProgress is called with.
CurrentFile == pf.files[Len(pf.results) + 1]

Event(type, fileName, current) ==
    IF pf.onProgress
    THEN <<[type |-> type, fileName |-> fileName, current |-> current,
            total |-> Len(pf.files)]>>
    ELSE << >>

\* The loop is left when every file has had its turn: return results.
AfterFile(done) == IF done = Len(pf.files) THEN "returned" ELSE "called"

\* The errors processAmadeusFile can reject file with: what validateFile or
\* the transformation throws, or the reader's error.
FailuresOf(file, tz) ==
    IF validateFile(file) # "none" THEN {validateFile(file)}
    ELSE {"READ_ERROR"} \cup ({processAmadeusFile("ExcelProcessor", file, tz).error} \ {"none"})

\* A failure that ends the loop: the entry is pushed and results returned.
FileFailedEndsBatch ==
    /\ pf.stage = "called"
    /\ Len(pf.results) < Len(pf.files)
    /\ \E error \in FailuresOf(CurrentFile, pf.tz) :
          pf' = [pf EXCEPT
                    !.stage = "returned",
                    !.results = Append(@, [fileName |-> CurrentFile.name, success |-> FALSE,
                                           error |-> error, recordCount |-> 0])]
    /\ UNCHANGED filesOthers

\* try: file_start, await processAmadeusFile(file), results.push, file_complete
FileProcessed ==
    /\ pf.stage = "called"
    /\ Len(pf.results) < Len(pf.files)
    /\ validateFile(CurrentFile) = "none"
    /\ LET run == processAmadeusFile("ExcelProcessor", CurrentFile, pf.tz) IN
       /\ run.error = "none"
       /\ pf' = [pf EXCEPT
                    !.results = Append(@, [fileName |-> CurrentFile.name, success |-> TRUE,
                                           data |-> run.data,
                                           recordCount |-> Len(run.data)]),
                    !.totalProcessed = @ + 1,
                    !.events = @ \o Event("file_start", CurrentFile.name, pf.totalProcessed)
                                 \o Event("file_complete", CurrentFile.name,
                                          pf.totalProcessed + 1),
                    !.stage = AfterFile(Len(pf.results) + 1)]
    /\ UNCHANGED filesOthers

\* catch (error): results.push of the failure, file_error; the loop goes on.
FileFailed ==
    /\ pf.stage = "called"
    /\ Len(pf.results) < Len(pf.files)
    /\ \E error \in FailuresOf(CurrentFile, pf.tz) :
          pf' = [pf EXCEPT
                    !.results = Append(@, [fileName |-> CurrentFile.name, success |-> FALSE,
                                           error |-> error, recordCount |-> 0]),
                    !.events = @ \o Event("file_start", CurrentFile.name, pf.totalProcessed)
                                 \o Event("file_error", CurrentFile.name, pf.totalProcessed),
                    !.stage = AfterFile(Len(pf.results) + 1)]
    /\ UNCHANGED filesOthers

RECURSIVE SumRecordCounts(_, _)
SumRecordCounts(results, n) ==
    IF n = 0 THEN 0 ELSE SumRecordCounts(results, n - 1) + results[n].recordCount

\* ExcelProcessor.createProcessingSummary(results)
createProcessingSummary(results) ==
    LET successful == SelectSeq(results, LAMBDA r : r.success)
        failed == SelectSeq(results, LAMBDA r : ~r.success)
    IN  [totalFiles |-> Len(results),
         successfulFiles |-> Len(successful),
         failedFiles |-> Len(failed),
         totalRecords |-> SumRecordCounts(successful, Len(successful)),
         errors |-> [k \in 1..Len(failed) |->
                        [fileName |-> failed[k].fileName, error |-> failed[k].error]]]

\* The caller summarises the list processFiles returned.
Summarise ==
    /\ pf.stage = "returned"
    /\ pf' = [pf EXCEPT !.stage = "summarised",
                        !.summary = createProcessingSummary(pf.results)]
    /\ UNCHANGED filesOthers

NextFiles == NoFilesProvided \/ FileProcessed \/ FileFailed \/ Summarise

SpecFiles == InitFiles /\ [][NextFiles]_vars

\* ------------------------------------------- a second click on one page
\* One page whose upload button is clicked while an earlier handleUpload of
\* the same page is suspended. Only the shared uploader disables the button
\* for the time of the upload (uploadBtn.disabled = true ... finally false);
\* a disabled button dispatches no click.
ReentryVariants == {"excel", "csv", "shared"}

InitReentry ==
    /\ InitUpload([s \in Slots |-> 1])
    /\ variant[1] \in ReentryVariants
    /\ variant[2] = variant[1]
    /\ InitOther

ButtonEnabled(s) ==
    variant[pageOf[s]] = "shared" =>
        \A o \in Slots \ {s} : pageOf[o] = pageOf[s] => task[o].pc = "idle"

ClickE == \E s \in Slots : ButtonEnabled(s) /\ StartUpload(s) /\ UNCHANGED others
ProbeE == \E s \in Slots : ProbeDone(s) /\ UNCHANGED others
ConfirmE == \E s \in Slots : Confirm(s) /\ UNCHANGED others
DeleteE == \E s \in Slots : DeleteDone(s) /\ UNCHANGED others
InsertE == \E s \in Slots : InsertDone(s) /\ UNCHANGED others
FileOkE == HandleFileOk(1) /\ UNCHANGED others
FileFailE == HandleFileFail(1) /\ UNCHANGED others

NextReentry ==
    \/ ClickE
    \/ ProbeE
    \/ ConfirmE
    \/ DeleteE
    \/ InsertE
    \/ FileOkE
    \/ FileFailE

SpecReentry == InitReentry /\ [][NextReentry]_vars

\* ------------------------------------------------- parseDate and parseNumber
\* One call of a cell parser. A date call takes a spreadsheet serial and the
\* calendar text of the serial's day in one of the forms below; a number
\* call takes a cell value together with the number its text denotes to a
\* reader (NotANumber where it denotes none).
DateForms == {"iso", "slash", "short", "weekday"}

WeekDays == <<<<"S", "u", "n">>, <<"M", "o", "n">>, <<"T", "u", "e">>, <<"W", "e", "d">>,
              <<"T", "h", "u">>, <<"F", "r", "i">>, <<"S", "a", "t">>>>

\* ECMAScript WeekDay: day 0 was a Thursday.
WeekDay(t) == (t + 4) % 7

SlashText(t, w) ==
    PadNum(MonthFromDay(t), IF MonthFromDay(t) < 10 THEN w ELSE 2) \o <<"/">>
        \o PadNum(DateFromDay(t), IF DateFromDay(t) < 10 THEN w ELSE 2) \o <<"/">>
        \o PadNum(YearFromDay(t), 4)

\* The calendar text of day t (days since 1970-01-01).
CalendarText(t, form) ==
    IF form = "iso" THEN toISODate(24 * t)
    ELSE IF form = "slash" THEN SlashText(t, 2)
    ELSE IF form = "short" THEN SlashText(t, 1)
    ELSE WeekDays[WeekDay(t) + 1] \o <<" ">> \o SlashText(t, 2)

NotANumber == DecNaN

NumberInputs ==
    <<[value |-> Null, denotes |-> NotANumber],
      [value |-> S(<< >>), denotes |-> NotANumber],
      [value |-> N(0), denotes |-> Dec(FALSE, 0, << >>)],
      [value |-> N(87), denotes |-> Dec(FALSE, 87, << >>)],
      [value |-> N(-12), denotes |-> Dec(TRUE, 12, << >>)],
      [value |-> S(<<"$", "1", ",", "2", "3", "4", ".", "5", "0">>), denotes |-> Dec(FALSE, 1234, <<"5">>)],
      [value |-> S(<<"-", "4", "2">>), denotes |-> Dec(TRUE, 42, << >>)],
      [value |-> S(<<"1", ",", "2", "3", "4">>), denotes |-> Dec(FALSE, 1234, << >>)],
      [value |-> S(<<"8", "5", "%">>), denotes |-> Dec(FALSE, 85, << >>)],
      [value |-> S(<<"0", ".", "7", "5">>), denotes |-> Dec(FALSE, 0, <<"7", "5">>)],
      [value |-> S(<<" ", "1", "2", " ">>), denotes |-> Dec(FALSE, 12, << >>)],
      [value |-> S(<<"a", "b", "c">>), denotes |-> NotANumber],
      [value |-> S(<<"-">>), denotes |-> NotANumber],
      [value |-> S(<<"R", "s", ".", " ", "5", "0", "0">>), denotes |-> Dec(FALSE, 500, << >>)],
      [value |-> S(<<"1", ".", "2", "3", "4", ".", "5", "6", "7">>), denotes |-> Dec(FALSE, 1234567, << >>)],
      [value |-> S(<<"(", "1", ",", "2", "3", "4", ")">>), denotes |-> Dec(TRUE, 1234, << >>)]>>

\* The page script hands a string to new Date() with its weekday, which
\* engines read differently; its date calls are the three other forms.
InitParse ==
    /\ pv \in {[stage |-> "date", ver |-> ver, tz |-> tz, n |-> n, form |-> form,
                 text |-> CalendarText(n - 25569, form),
                 fromSerial |-> Null, fromString |-> Null] :
                    ver \in Processors, tz \in TimeZones, n \in Serials \ {0},
                    form \in DateForms}
             \cup {[stage |-> "number", ver |-> ver, input |-> k, result |-> NotANumber] :
                    ver \in Processors, k \in 1..Len(NumberInputs)}
    /\ (pv.stage = "date" /\ pv.ver = "page") => pv.form # "weekday"
    /\ hzIn = 0 /\ hzOut = "none" /\ bt = NoBatchRun
    /\ fp = NoRun /\ vd = NoRun /\ dc = NoRun /\ pf = NoRun /\ dm = NoRun
    /\ InitUpload([s \in Slots |-> 1])
    /\ variant = [p \in Pages |-> "excel"]
    /\ batchSize = BATCH_SIZE

parseOthers == <<variant, pageOf, batchSize, processedData, isValid, table, nextAtt,
                 task, swapped, hzIn, hzOut, bt, fp, vd, dc, pf, dm>>

\* parseDate(n) and parseDate(text) in the same time zone.
ParseDates ==
    /\ pv.stage = "date"
    /\ pv' = [pv EXCEPT !.stage = "dateDone",
                        !.fromSerial = parseDate(pv.ver, N(pv.n), pv.tz),
                        !.fromString = parseDate(pv.ver, S(pv.text), pv.tz)]
    /\ UNCHANGED parseOthers

\* parseNumber(value)
ParseNumbers ==
    /\ pv.stage = "number"
    /\ pv' = [pv EXCEPT !.stage = "numberDone",
                        !.result = parseNumberValue(NumberInputs[pv.input].value)]
    /\ UNCHANGED parseOthers

NextParse == ParseDates \/ ParseNumbers

SpecParse == InitParse /\ [][NextParse]_vars

\* ------------------------------------------------ SupabaseDataManager cache
\* One SupabaseDataManager: its cache Map, the table behind it, one call of
\* uploadForecastData at a time and one query of getForecastData in flight.
\* A cache key is JSON.stringify(filters); the rows of one report share
\* their city and as_of_date, so a filter selects the rows of a report.
MaxQueries == 2

CacheKeys == {"All"} \cup ReportIds

NoEntry == [set |-> FALSE, data |-> {}]
Entry(data) == [set |-> TRUE, data |-> data]
EmptyCache == [k \in CacheKeys |-> NoEntry]

\* select('*') with the filters applied
Filtered(key, tbl) == IF key = "All" THEN tbl ELSE Existing(tbl, key)

\* clearCache(): this.cache.clear()
clearCache(d) == [d EXCEPT !.cache = EmptyCache]

InitCache ==
    /\ dm \in {[stage |-> "on", subscribed |-> sub, table |-> {}, cache |-> EmptyCache,
                 pending |-> "none", nQuery |-> 0, got |-> {}, events |-> 0,
                 pc |-> "idle", att |-> 0, data |-> << >>, i |-> 0, total |-> 0,
                 outcome |-> "none"] : sub \in BOOLEAN}
    /\ hzIn = 0 /\ hzOut = "none" /\ bt = NoBatchRun
    /\ fp = NoRun /\ vd = NoRun /\ dc = NoRun /\ pf = NoRun /\ pv = NoRun
    /\ InitUpload([s \in Slots |-> 1])
    /\ variant = [p \in Pages |-> "manager"]

cacheOthers == <<variant, pageOf, batchSize, processedData, isValid, table, nextAtt,
                 task, swapped, hzIn, hzOut, bt, fp, vd, dc, pf, pv>>

\* getForecastData, cache hit: an entry younger than cacheTimeout is
\* returned as it is.
GetCached ==
    /\ dm.pending = "none" /\ dm.nQuery < MaxQueries
    /\ \E key \in CacheKeys :
        /\ dm.cache[key].set
        /\ dm' = [dm EXCEPT !.nQuery = @ + 1, !.got = dm.cache[key].data]
    /\ UNCHANGED cacheOthers

\* getForecastData, no entry or an entry past cacheTimeout: the query goes
\* out.
GetQueried ==
    /\ dm.pending = "none" /\ dm.nQuery < MaxQueries
    /\ \E key \in CacheKeys : dm' = [dm EXCEPT !.nQuery = @ + 1, !.pending = key]
    /\ UNCHANGED cacheOthers

\* The query answers: if (error) throw error; else this.cache.set(cacheKey,
\* {data, timestamp}) and the rows are returned.
QueryAnswered ==
    /\ dm.pending # "none"
    /\ \E err \in BOOLEAN :
        IF err THEN dm' = [dm EXCEPT !.pending = "none"]
        ELSE dm' = [dm EXCEPT !.pending = "none",
                              !.got = Filtered(dm.pending, dm.table),
                              !.cache[dm.pending] = Entry(Filtered(dm.pending, dm.table))]
    /\ UNCHANGED cacheOthers

\* catch (error): throw new Error(`Upload failed: ${error.message}`)
UploadThrows(d) == [d EXCEPT !.pc = "idle", !.outcome = "threw"]

\* The head of the batch loop: the next insert goes out, or the loop is
\* over, the cache is cleared and totalUploaded returned.
UploadLoop(d) ==
    IF d.i < Len(d.data) THEN [d EXCEPT !.pc = "insert"]
    ELSE clearCache([d EXCEPT !.pc = "idle", !.outcome = "returned"])

\* uploadForecastData(transformedData) up to its first await.
UploadCalled ==
    /\ dm.pc = "idle" /\ dm.att < MaxAttempts
    /\ \E data \in ManagerLists, valid \in BOOLEAN :
        LET d == [dm EXCEPT !.att = @ + 1, !.data = data, !.i = 0, !.total = 0,
                            !.outcome = "running"]
        IN dm' = IF Len(data) = 0 \/ ~valid THEN UploadThrows(d)
                 ELSE [d EXCEPT !.pc = "probe"]
    /\ UNCHANGED cacheOthers

\* The existence probe answers; its error is not looked at.
UploadProbed ==
    /\ dm.pc = "probe"
    /\ \E err \in BOOLEAN :
        dm' = IF ~err /\ Existing(dm.table, dm.data[1].rid) # {}
              THEN UploadThrows(dm) ELSE UploadLoop(dm)
    /\ UNCHANGED cacheOthers

\* One insert answers: if (error) throw error; else totalUploaded grows and
\* the loop goes round. A subscription is sent an INSERT event.
UploadInserted ==
    /\ dm.pc = "insert"
    /\ \E err \in BOOLEAN :
        LET batch == BatchAt(dm.data, dm.i, batchSize) IN
        dm' = IF err THEN UploadThrows(dm)
              ELSE UploadLoop([dm EXCEPT
                       !.table = InsertRows(@, batch, dm.att),
                       !.total = @ + Len(batch),
                       !.i = @ + batchSize,
                       !.events = IF dm.subscribed THEN 1 ELSE 0])
    /\ UNCHANGED cacheOthers

\* setupRealTimeUpdates: the INSERT event arrives and its handler clears
\* the cache.
InsertEvent ==
    /\ dm.events > 0
    /\ dm' = clearCache([dm EXCEPT !.events = 0])
    /\ UNCHANGED cacheOthers

NextCache ==
    \/ GetCached
    \/ GetQueried
    \/ QueryAnswered
    \/ UploadCalled
    \/ UploadProbed
    \/ UploadInserted
    \/ InsertEvent

SpecCache == InitCache /\ [][NextCache]_vars

\* ================================================================ claims
\* The rows in the table that the current / last invocation of slot s sent.
AttRows(s) == {r \in table : r.att = task[s].att}

Terminated(s) ==
    task[s].pc = "idle" /\ task[s].outcome \in {"success", "failed", "cancelled"}

Ceil(n, b) == (n + b - 1) \div b

\* C1: when the probe finds the report and the overwrite is declined, the
\* attempt has issued no delete and no insert, it ends as 'cancelled' with
\* the info message 'Upload cancelled by user.' (not an error), and the step
\* that takes the answer leaves the backend table as it was.
C1_DeclinedOverwrite ==
    /\ [](\A s \in Slots :
            task[s].answer = "no" =>
                /\ task[s].probe = "found"
                /\ task[s].nDelete = 0
                /\ task[s].nInsert = 0
                /\ task[s].pc = "idle"
                /\ task[s].outcome = "cancelled"
                /\ task[s].alert = Alert("info", "Upload cancelled by user."))
    /\ [][\A s \in Slots :
            (task[s].pc = "modal" /\ task'[s].answer = "no") => table' = table]_vars

C1_Witness ==
    \E s \in Slots :
        /\ task[s].answer = "no"
        /\ task[s].outcome = "cancelled"
        /\ Existing(table, task[s].reportId) # {}

\* C2: no upload attempt issues a delete or an insert before its existence
\* probe for records[0].report_id has been issued and has answered.
C2_ProbeBeforeMutation ==
    \A s \in Slots :
        (task[s].nDelete > 0 \/ task[s].nInsert > 0) =>
            (task[s].nProbe > 0 /\ task[s].probe \in {"found", "absent"})

\* C3: after an accepted overwrite the delete has completed, leaving no row
\* with the report_id, before the first insert is issued; when the delete
\* returns an error the attempt fails and no insert is issued.
C3_DeleteBeforeInsert ==
    \A s \in Slots :
        task[s].answer = "yes" =>
            /\ task[s].nDelete = 1
            /\ task[s].nInsert > 0 => task[s].deleted
            /\ (task[s].pc = "insert" /\ task[s].sent = << >>) =>
                   Existing(table, task[s].reportId) = {}
            /\ (task[s].pc = "idle" /\ ~task[s].deleted) =>
                   /\ task[s].failedAt = "delete"
                   /\ task[s].outcome = "failed"
                   /\ task[s].nInsert = 0

C3_Witness ==
    \E s \in Slots :
        /\ task[s].answer = "yes"
        /\ task[s].deleted
        /\ task[s].outcome = "success"
        /\ AttRows(s) # {}

\* C4: batches are inserted one at a time in list order (of a list that is
\* not replaced under the loop); the first insert that returns an error ends
\* the attempt: no further insert and no delete follows, and the table holds
\* exactly the records of the batches inserted before it.
C4_AbortOnFirstInsertError ==
    \A s \in Slots :
        LET t == task[s] IN
        /\ ~t.replaced => t.sent = SubSeq(t.list, 1, Len(t.sent))
        /\ t.pc = "insert" => t.nInsert = Len(t.progress) + 1
        /\ t.failedAt = "insert" =>
              /\ t.pc = "idle"
              /\ t.outcome = "failed"
              /\ t.nInsert = Len(t.progress) + 1
              /\ t.nDelete = (IF t.answer = "yes" THEN 1 ELSE 0)
              /\ AttRows(s) = RowsOf(t.sent, t.att)

C4_Witness ==
    \E s \in Slots :
        /\ task[s].failedAt = "insert"
        /\ task[s].sent # << >>
        /\ AttRows(s) = RowsOf(task[s].sent, task[s].att)

\* C5: a fully successful upload of N records with batch size B issues
\* ceil(N/B) inserts; the progress after the k-th batch is min(k*B, N)/N,
\* strictly increasing, and 100% only after the last batch; N = 2500 and
\* B = 1000 give 3 inserts with progress 40%, 80%, 100%.
C5_BatchCountAndProgress ==
    /\ \A k \in 1..Len(bt.progress) :
          /\ bt.progress[k] = <<Min(k * bt.b, bt.n), bt.n>>
          /\ k > 1 => bt.progress[k - 1][1] < bt.progress[k][1]
          /\ bt.progress[k][1] = bt.progress[k][2] <=> k = Ceil(bt.n, bt.b)
    /\ bt.calls = Len(bt.progress)
    /\ bt.done => bt.calls = Ceil(bt.n, bt.b)
    /\ (bt.done /\ bt.n = 2500 /\ bt.b = BATCH_SIZE) =>
          /\ bt.calls = 3
          /\ [k \in 1..3 |-> (bt.progress[k][1] * 100) \div bt.progress[k][2]]
                = <<40, 80, 100>>
          /\ \A k \in 1..3 : (bt.progress[k][1] * 100) % bt.progress[k][2] = 0

C5_Witness == bt.done /\ bt.n = 2500 /\ bt.b = BATCH_SIZE /\ bt.calls = 3

\* C6: when a batch insert fails, the error shown to the caller carries the
\* number of records inserted before the failure.
C6_ErrorCarriesCount ==
    \A s \in Slots :
        task[s].failedAt = "insert" => task[s].alert.count = Len(task[s].sent)

\* C7 (as claimed): when an attempt ends the table holds every record of
\* its list or none of them.
C7_AllOrNothing ==
    \A s \in Slots :
        (Terminated(s) /\ ~task[s].replaced) =>
            \/ AttRows(s) = {}
            \/ AttRows(s) = RowsOf(task[s].list, task[s].att)

\* C7 (amended): when an attempt ends the table holds exactly the records of
\* the batches it inserted: none when it was cancelled or failed before the
\* first insert, a strict prefix of whole batches when an insert failed, and
\* every record when it succeeded (the list not being replaced meanwhile).
C7_WholeBatchPrefix ==
    \A s \in Slots :
        LET t == task[s] IN
        Terminated(s) =>
            /\ AttRows(s) = RowsOf(t.sent, t.att)
            /\ (t.outcome = "cancelled"
                    \/ t.failedAt \in {"check", "delete", "exists", "validate"})
                  => t.sent = << >>
            /\ (t.failedAt = "insert" /\ ~t.replaced) =>
                  /\ t.sent = SubSeq(t.list, 1, batchSize * Len(t.progress))
                  /\ Len(t.sent) < Len(t.list)
            /\ (t.outcome = "success" /\ ~t.replaced) => t.sent = t.list

C7_Witness ==
    \E s \in Slots :
        /\ task[s].failedAt = "insert"
        /\ ~task[s].replaced
        /\ AttRows(s) # {}
        /\ AttRows(s) # RowsOf(task[s].list, task[s].att)

\* C8: after any sequence of handleUpload attempts of one session (no list
\* being replaced while an attempt runs) the table never holds rows of two
\* different attempts with the same report_id.
C8_OneAttemptPerReport ==
    (variant[1] # "manager" /\ ~swapped) =>
        \A r1, r2 \in table :
            (r1.rid = r2.rid /\ r1.rid # NoId) => r1.att = r2.att

\* C9: two sessions uploading the same report_id to the initially empty
\* table (the first two attempts made on it) whose probes both saw no row
\* both insert: when both have succeeded the table holds both full copies
\* of the report.
RaceLost(s1, s2) ==
    /\ s1 # s2
    /\ {task[s1].att, task[s2].att} = {1, 2}
    /\ task[s1].reportId = task[s2].reportId
    /\ task[s1].probe = "absent" /\ task[s2].probe = "absent"
    /\ task[s1].outcome = "success" /\ task[s2].outcome = "success"

C9_ProbeThenActRace ==
    \A s1, s2 \in Slots :
        RaceLost(s1, s2) =>
            /\ RowsOf(task[s1].list, task[s1].att) \subseteq table
            /\ RowsOf(task[s2].list, task[s2].att) \subseteq table
            /\ Cardinality(Existing(table, task[s1].reportId)) >=
                  2 * Min(Cardinality(Existing(RowsOf(task[s1].list, 0), task[s1].reportId)),
                          Cardinality(Existing(RowsOf(task[s2].list, 0), task[s2].reportId)))

C9_Witness ==
    \E s1, s2 \in Slots :
        /\ RaceLost(s1, s2)
        /\ task[s1].list = task[s2].list
        /\ table = RowsOf(task[s1].list, task[s1].att)
                      \cup RowsOf(task[s2].list, task[s2].att)
        /\ Cardinality(table) = 2 * Len(task[s1].list)

\* C10: getHorizonFromDaysOut is total and its buckets partition the
\* integers: d <= -1 Historical, 0..30 Near_Term, 31..90 Medium_Term,
\* d >= 91 Long_Term, exactly one bucket matching every d.
ExpectedHorizon(d) ==
    IF d <= -1 THEN "Historical"
    ELSE IF d <= 30 THEN "Near_Term"
    ELSE IF d <= 90 THEN "Medium_Term"
    ELSE "Long_Term"

C10_HorizonPartition ==
    /\ Cardinality(Matching(hzIn)) = 1
    /\ hzOut # "none" => hzOut = ExpectedHorizon(hzIn)
    /\ (hzOut # "none" /\ hzIn \in {-1, 0, 30, 31, 90, 91}) =>
          hzOut = CASE hzIn = -1 -> "Historical"
                    [] hzIn \in {0, 30} -> "Near_Term"
                    [] hzIn \in {31, 90} -> "Medium_Term"
                    [] OTHER -> "Long_Term"

C10_Witness == hzIn = 30 /\ hzOut = "Near_Term"

\* ------------------------------------------------- claims on file ingestion
\* The file went through reader.onload (it was neither refused by
\* validateFile nor unreadable).
Loaded ==
    /\ fp.stage = "done"
    /\ fp.run.error \notin {"FILE_TOO_LARGE", "INVALID_FILE_FORMAT", "READ_ERROR"}

\* C11: every record that reaches the upload step (the record list the page
\* holds after handleFile) has forecast_horizon = getHorizonFromDaysOut of
\* its own days_out.
C11_HorizonFromDaysOut ==
    fp.stage = "done" =>
        \A k \in 1..Len(fp.processedData) :
            fp.processedData[k].forecast_horizon = HorizonOf(fp.processedData[k].days_out)

\* C12: the list the row transformer produces holds no two records with the
\* same forecast_date and market_segment.
C12_OneRecordPerDateAndSegment ==
    (Loaded /\ fp.ver \in Processors) =>
        \A i, j \in 1..Len(fp.run.transformed) :
            (/\ fp.run.transformed[i].forecast_date = fp.run.transformed[j].forecast_date
             /\ fp.run.transformed[i].market_segment = fp.run.transformed[j].market_segment)
                => i = j

\* The 0-based indices of the rows that carry the header signature.
HasWord(row, col, word) ==
    /\ Len(row) > col
    /\ row[col + 1].t = "str"
    /\ \E a \in 1..Len(row[col + 1].s) : \E b \in a..Len(row[col + 1].s) :
           toLowerCase(SubSeq(row[col + 1].s, a, b)) = word

SignatureRows(rawData) ==
    {i \in 0..(Len(rawData) - 1) :
        /\ HasWord(rawData[i + 1], 3, CurrentWord)
        /\ HasWord(rawData[i + 1], 4, PickupWord)
        /\ HasWord(rawData[i + 1], 5, VarWord)}

\* C13: findDataStartRow answers i + 1 for the first row i with the header
\* signature; with no such row it answers -1, the file is rejected, no record
\* is emitted, and the error is the layout error whenever the file got as
\* far as the header locator (its metadata was determined).
C13_DataStartsAfterHeader ==
    (Loaded /\ fp.ver \in Processors) =>
        LET rows == SignatureRows(fp.file.grid) IN
        /\ rows # {} =>
              \E i \in rows : /\ \A h \in rows : i <= h
                              /\ fp.run.dataStartRow = i + 1
        /\ rows = {} =>
              /\ fp.run.dataStartRow = -1
              /\ fp.run.error # "none"
              /\ fp.run.transformed = << >>
              /\ fp.processedData = << >>
              /\ fp.run.error \notin {"NO_AS_OF_DATE", "NO_CITY"}
                    => fp.run.error = "NO_DATA_SECTION"

C13_Witness ==
    /\ Loaded /\ fp.ver \in Processors
    /\ fp.file.grid = Grids[4]
    /\ fp.run.dataStartRow = 2
    /\ fp.run.error = "none"
    /\ Len(fp.processedData) = 10

\* The file name without its last dot and what follows it.
BaseName(fileName) == SubSeq(fileName, 1, Len(fileName) - Len(ExtensionOf(fileName)))

\* C14: when the base name has at least 4 tokens, extractMetadata returns
\* city = token[0] and asOfDate = token[1]-token[2]-token[3] with month and
\* day padded to two digits.
C14_MetadataFromFileName ==
    (/\ Loaded /\ fp.ver \in Processors
     /\ fp.run.error \notin {"NO_AS_OF_DATE", "NO_CITY"}
     /\ Len(split(BaseName(fp.file.name), "_")) >= 4) =>
        LET token == split(BaseName(fp.file.name), "_") IN
        /\ fp.run.metadata.city = S(token[1])
        /\ fp.run.metadata.asOfDate =
               S(token[2] \o Dash \o padStart(token[3]) \o Dash \o padStart(token[4]))

\* The values the first METADATA_ROWS rows offer for a label.
OfferedBy(rawData, word) ==
    {rawData[k][3] : k \in {h \in 1..Min(METADATA_ROWS, Len(rawData)) :
                               /\ Len(rawData[h]) >= 3
                               /\ includes(LabelIn(rawData[h]), word)
                               /\ Truthy(rawData[h][3])}}

MetadataErrors == {"NO_AS_OF_DATE", "NO_CITY"}

\* C15: a value from the content is used only for a field the file name did
\* not yield, it comes from a label row among the first METADATA_ROWS rows,
\* and extractMetadata either returns a non-empty asOfDate and city or fails
\* with a metadata error.
C15_MetadataFallback ==
    (Loaded /\ fp.ver \in Processors) =>
        LET named == MetadataFromName(fp.ver, fp.file.name)
            metadata == fp.run.metadata
        IN /\ Truthy(named.asOfDate) => metadata.asOfDate = named.asOfDate
           /\ Truthy(named.city) => metadata.city = named.city
           /\ metadata.asOfDate # named.asOfDate =>
                 \E v \in OfferedBy(fp.file.grid, AsOfDateLabel) :
                     metadata.asOfDate = parseDate(fp.ver, v, fp.tz)
           /\ metadata.city # named.city =>
                 \E v \in OfferedBy(fp.file.grid, CompSetLabel) :
                     metadata.city = S(trim(StringOf(v)))
           /\ fp.run.error \in MetadataErrors
                 <=> (~Truthy(metadata.asOfDate) \/ ~Truthy(metadata.city))
           /\ fp.run.error \in MetadataErrors => fp.processedData = << >>

C15_Witness ==
    /\ Loaded /\ fp.ver \in Processors
    /\ fp.file.name = FileNames[3]
    /\ fp.file.grid = Grids[2]
    /\ fp.run.error = "none"
    /\ fp.run.metadata.city = S(Calgary)
    /\ fp.run.metadata.asOfDate = S(Date_2024_11_30)

\* C16: for every file name validateFile accepts, reportId is the file name
\* with its extension removed.
C16_ReportIdIsBaseName ==
    (Loaded /\ fp.ver \in Processors /\ validateFile(fp.file) = "none") =>
        fp.run.metadata.reportId = BaseName(fp.file.name)

Validated == vd.stage = "done"

Complete(data) == Len(data) > 0 /\ REQUIRED_COLUMNS \subseteq DOMAIN data[1]

\* C17: validateTransformedData rejects the empty list and every list whose
\* first record lacks one of as_of_date, city, forecast_date,
\* market_segment, current_occupancy; the records of a rejected list are
\* never stored for upload.
C17_RejectsEmptyOrIncomplete ==
    Validated =>
        /\ Len(vd.data) = 0 => (vd.error = "NO_DATA" /\ vd.processedData = << >>)
        /\ (Len(vd.data) > 0 /\ ~Complete(vd.data)) =>
               (vd.error = "MISSING_FIELD" /\ vd.processedData = << >>)
        /\ vd.error # "none" => vd.processedData = << >>

C17_Witness ==
    /\ Validated
    /\ Len(vd.data) = ListLen
    /\ "current_occupancy" \notin DOMAIN vd.data[1]
    /\ "city" \in DOMAIN vd.data[1]
    /\ vd.error = "MISSING_FIELD"
    /\ vd.processedData = << >>

\* The range violations of record i, one per failed check.
ViolationsAt(data, i) ==
    {c \in {"occupancy", "variance", "segment"} :
        \/ c = "occupancy" /\ (data[i].current_occupancy < 0 \/ data[i].current_occupancy > 100)
        \/ c = "variance" /\ (data[i].stly_variance < -100 \/ data[i].stly_variance > 100)
        \/ c = "segment" /\ data[i].market_segment \notin
               {"Totals", "Transient", "Group_Sold", "Unsold_Block", "Other"}}

ViolationsIn(data, rows) ==
    Cardinality({p \in rows \X {"occupancy", "variance", "segment"} :
                     p[2] \in ViolationsAt(data, p[1])})

\* Well-formed records of which some are out of range in current_occupancy.
OccupancyOnly(data) ==
    \A i \in 1..Len(data) : ViolationsAt(data, i) \subseteq {"occupancy"}

\* C18 (as claimed): a list of well-formed records is rejected exactly when
\* more than 10 of its rows have current_occupancy outside [0, 100],
\* wherever in the list those rows are; of 200 records, 9 such rows are
\* accepted and 11 rejected.
C18_ThresholdAnywhere ==
    (Validated /\ vd.ver = "ExcelProcessor" /\ Complete(vd.data) /\ OccupancyOnly(vd.data)) =>
        (vd.error # "none" <=> ViolationsIn(vd.data, 1..Len(vd.data)) > 10)

\* C18 (amended): the ExcelProcessor validator rejects a list with all
\* required fields exactly when the range violations among its first 50
\* records number more than 10; a list of 200 well-formed records with 9
\* out-of-range rows is accepted wherever they are, one with 11 is rejected
\* exactly when all 11 are among the first 50.
C18_ThresholdInSample ==
    (Validated /\ vd.ver = "ExcelProcessor" /\ Complete(vd.data)) =>
        /\ vd.error = "TOO_MANY_ERRORS" <=>
               ViolationsIn(vd.data, 1..Min(Len(vd.data), 50)) > 10
        /\ vd.error = "none" <=>
               ViolationsIn(vd.data, 1..Min(Len(vd.data), 50)) <= 10
        /\ vd.error = "none" => vd.processedData = vd.data
        /\ (Len(vd.data) = ListLen /\ OccupancyOnly(vd.data)) =>
              /\ ViolationsIn(vd.data, 1..ListLen) = 9 => vd.error = "none"
              /\ ViolationsIn(vd.data, 1..ListLen) = 11 =>
                     (vd.error # "none" <=> ViolationsIn(vd.data, 1..50) = 11)

C18_Witness ==
    /\ Validated
    /\ vd.ver = "ExcelProcessor"
    /\ Len(vd.data) = ListLen
    /\ Complete(vd.data)
    /\ OccupancyOnly(vd.data)
    /\ ViolationsIn(vd.data, 1..ListLen) = 11
    /\ ViolationsIn(vd.data, 1..50) = 0
    /\ vd.error = "none"
    /\ vd.processedData = vd.data

Transformed == dc.stage = "done" /\ dc.n # 0

\* The whole-day difference between the date serial n decodes to under the
\* 25569-day epoch offset and the as-of date.
SerialDaysOut == (dc.n - 25569) - AsOfDates[dc.asOf].day

DaysOutIs(d, horizon) ==
    /\ Len(dc.records) = Len(segmentMappings)
    /\ \A k \in 1..Len(dc.records) :
          /\ dc.records[k].days_out = [nan |-> FALSE, val |-> d]
          /\ dc.records[k].forecast_horizon = horizon

C20_OneEntryPerFile ==
    /\ Len(pf.results) <= Len(pf.files)
    /\ \A k \in 1..Len(pf.results) :
          /\ pf.results[k].fileName = pf.files[k].name
          /\ pf.results[k].success =>
                /\ pf.results[k].recordCount = Len(pf.results[k].data)
                /\ pf.results[k].recordCount > 0
                /\ "error" \notin DOMAIN pf.results[k]
          /\ ~pf.results[k].success =>
                /\ pf.results[k].recordCount = 0
                /\ pf.results[k].error # "none"
                /\ "data" \notin DOMAIN pf.results[k]
    /\ pf.stage \in {"returned", "summarised"} => Len(pf.results) = Len(pf.files)
    /\ pf.stage = "called" => Len(pf.results) < Len(pf.files) \/ pf.results = << >>
    /\ pf.stage = "summarised" =>
          /\ pf.summary.totalFiles = Len(pf.files)
          /\ pf.summary.successfulFiles + pf.summary.failedFiles = pf.summary.totalFiles
          /\ pf.summary.successfulFiles =
                 Cardinality({k \in 1..Len(pf.results) : pf.results[k].success})
          /\ Len(pf.summary.errors) = pf.summary.failedFiles

C20_Witness ==
    /\ pf.stage = "summarised"
    /\ Len(pf.files) = 3
    /\ ~pf.results[1].success
    /\ pf.results[2].success
    /\ ~pf.results[3].success
    /\ pf.summary.successfulFiles = 1
    /\ pf.summary.failedFiles = 2

InProgress(s) == task[s].pc # "idle"

\* C21: at most one upload attempt is in progress per page: while an
\* invocation of handleUpload is suspended on a backend call or on the
\* overwrite confirmation, no other invocation of the same page has issued a
\* backend call and is waiting for it.
C21_OneAttemptInProgress ==
    \A s1, s2 \in Slots :
        (s1 # s2 /\ pageOf[s1] = pageOf[s2]) => ~(InProgress(s1) /\ InProgress(s2))

\* The run got as far as the row transformer.
RowsTransformed ==
    /\ fp.stage = "done"
    /\ fp.ver \in Processors
    /\ fp.run.error \in {"none", "NO_DATA", "MISSING_FIELD", "TOO_MANY_ERRORS"}

\* The 1-based positions of the body rows, in grid order.
BodyRows == (fp.run.dataStartRow + 1)..Len(fp.file.grid)

DateOfRow(i) == parseDate(fp.ver, At(fp.file.grid[i], 2), fp.tz)

\* The body rows the version at hand does not skip.
Kept(i) ==
    /\ fp.ver = "ExcelProcessor" => Len(fp.file.grid[i]) >= 18
    /\ Truthy(At(fp.file.grid[i], 2))
    /\ Truthy(DateOfRow(i))

\* The number of kept body rows before row i.
KeptBefore(i) == Cardinality({j \in BodyRows : j < i /\ Kept(j)})

SegmentOrder == <<"Totals", "Transient", "Group_Sold", "Unsold_Block", "Other">>

\* C22: the row transformer takes the body rows in grid order; every row
\* it does not skip gives five consecutive records, Totals, Transient,
\* Group_Sold, Unsold_Block, Other, all with the row's forecast_date and one
\* days_out and forecast_horizon; the output has 5 records per such row.
C22_FiveRecordsPerRowInOrder ==
    RowsTransformed =>
        /\ Len(fp.run.transformed) = 5 * Cardinality({i \in BodyRows : Kept(i)})
        /\ \A i \in BodyRows :
              Kept(i) =>
                 \A k \in 1..5 :
                    LET r == fp.run.transformed[5 * KeptBefore(i) + k]
                        first == fp.run.transformed[5 * KeptBefore(i) + 1]
                    IN  /\ r.market_segment = SegmentOrder[k]
                        /\ r.forecast_date = DateOfRow(i)
                        /\ r.days_out = first.days_out
                        /\ r.forecast_horizon = first.forecast_horizon

C22_Witness ==
    /\ RowsTransformed
    /\ fp.ver = "ExcelProcessor"
    /\ fp.file.grid = Grids[6]
    /\ Len(fp.run.transformed) = 10
    /\ fp.run.transformed[1].forecast_date # fp.run.transformed[6].forecast_date
    /\ fp.run.transformed[10].market_segment = "Other"

\* The skip rule as claimed, for either version.
ClaimedSkip(i) ==
    \/ Len(fp.file.grid[i]) = 0
    \/ Len(fp.file.grid[i]) < 18
    \/ ~Truthy(At(fp.file.grid[i], 2))
    \/ ~Truthy(DateOfRow(i))

\* C23: a body row gives no record exactly when it is absent, has fewer
\* than 18 columns, has an empty column 2 or a column 2 that parseDate
\* cannot parse; every other body row gives records.
C23_SkippedExactlyWhen ==
    RowsTransformed =>
        /\ Len(fp.run.transformed) = 5 * Cardinality({i \in BodyRows : ~ClaimedSkip(i)})
        /\ \A i \in BodyRows :
              ClaimedSkip(i) =>
                 \A k \in 1..Len(fp.run.transformed) :
                    fp.run.transformed[k].forecast_date # DateOfRow(i)
                        \/ \E j \in BodyRows : ~ClaimedSkip(j) /\ DateOfRow(j) = DateOfRow(i)


\* C24: for every serial n and every time zone, parseDate(n) is the date
\* parseDate gives for the calendar text of the same day.
C24_SerialEqualsCalendarText ==
    pv.stage = "dateDone" => pv.fromSerial = pv.fromString

\* C25: parseNumber gives 0 for null, '' and text that denotes no number,
\* the number itself for a number, and for any other text the number the
\* text denotes, with its magnitude and sign.
C25_DenotedNumber ==
    pv.stage = "numberDone" =>
        pv.result = IF NumberInputs[pv.input].denotes = NotANumber
                    THEN Dec(FALSE, 0, << >>)
                    ELSE NumberInputs[pv.input].denotes

\* C26: every record an attempt of handleUpload has inserted carries the
\* report_id its existence probe checked, whatever the list holds and
\* whatever handleFile does to processedData between two batches.
C26_InsertedUnderProbedId ==
    \A s \in Slots :
        (variant[pageOf[s]] \in {"excel", "csv"} /\ task[s].nProbe > 0) =>
            \A r \in AttRows(s) : r.rid = task[s].reportId

\* C28: when the existence probe comes back with an error, the attempt ends
\* as failed and has issued no delete and no insert.
C28_ProbeErrorEndsAttempt ==
    \A s \in Slots :
        task[s].probe = "error" =>
            /\ task[s].pc = "idle" /\ task[s].outcome = "failed"
            /\ task[s].nDelete = 0 /\ task[s].nInsert = 0

PageScript(s) == variant[pageOf[s]] \in {"excel", "csv"}

\* The step is a handleFile that succeeded: the list is replaced by a
\* non-empty one and no invocation moves.
FileReplacedData(p) ==
    /\ processedData'[p] \in ListsOf(variant[p]) \ {<< >>}
    /\ \A s \in Slots : task'[s].pc = task[s].pc /\ task'[s].outcome = task[s].outcome
    /\ table' = table /\ nextAtt' = nextAtt

\* The step is the end of an upload whose loop ran to its end with every
\* insert answered without error.
UploadClearedData(p) ==
    /\ processedData'[p] = << >>
    /\ \E s \in Slots :
        /\ pageOf[s] = p /\ task[s].pc # "idle"
        /\ task'[s].pc = "idle" /\ task'[s].outcome = "success"

\* C27: on the pages, processedData changes in two ways only: a handleFile
\* that succeeds replaces it and an upload that succeeds in full empties it.
\* An upload that fails or is cancelled leaves it as it was, and a
\* handleUpload on the emptied list ends at once with no backend call.
C27_DataChangesTwoWays ==
    [][\A s \in Slots : PageScript(s) =>
          /\ processedData'[pageOf[s]] # processedData[pageOf[s]] =>
                FileReplacedData(pageOf[s]) \/ UploadClearedData(pageOf[s])
          /\ (task[s].pc # "idle" /\ task'[s].outcome \in {"failed", "cancelled"}) =>
                processedData'[pageOf[s]] = processedData[pageOf[s]]
          /\ (task'[s].att # task[s].att /\ processedData[pageOf[s]] = << >>) =>
                /\ task'[s].pc = "idle" /\ task'[s].outcome = "nodata"
                /\ task'[s].nProbe = 0 /\ task'[s].nDelete = 0 /\ task'[s].nInsert = 0
                /\ table' = table]_vars

\* A second handleUpload right after a successful one: the list is empty,
\* nothing was sent, the table holds the first upload only.
C27_Witness ==
    /\ PageScript(1)
    /\ task[1].att = 2 /\ task[1].outcome = "nodata" /\ task[1].nProbe = 0
    /\ processedData[1] = << >>
    /\ table # {} /\ \A r \in table : r.att = 1

\* The rows of the report the invocation of slot s probed for.
ReportRows(s) == Existing(table, task[s].reportId)

\* C29: once an overwrite was accepted and the delete has succeeded, no row
\* an earlier upload stored under that report_id is in the table, and no
\* later step brings one back: every row that enters the table is one the
\* running invocation inserts. When an insert fails afterwards, the rows of
\* the report are the batches of the new upload that were inserted before
\* the failure.
C29_OldReportGone ==
    /\ [](\A s \in Slots :
            (PageScript(s) /\ task[s].deleted) =>
                /\ \A r \in ReportRows(s) : r.att = task[s].att
                /\ (task[s].outcome = "failed" /\ task[s].failedAt = "insert") =>
                      ReportRows(s) = {r \in RowsOf(task[s].sent, task[s].att) :
                                          r.rid = task[s].reportId})
    /\ [][\A r \in table' \ table :
            \E s \in Slots : task[s].pc = "insert" /\ r.att = task[s].att]_vars

\* The overwrite failed at its second batch: the old report is gone and the
\* first batch of the new one is what the table holds for the report.
C29_Witness ==
    /\ PageScript(1) /\ task[1].deleted /\ task[1].att = 2
    /\ task[1].outcome = "failed" /\ task[1].failedAt = "insert"
    /\ Len(task[1].sent) = SmallBatch
    /\ Cardinality(ReportRows(1)) = SmallBatch
    /\ \A r \in ReportRows(1) : r.att = 2

\* C30: whenever uploadForecastData has inserted at least one batch, the
\* cache is empty at the step in which the call returns or throws.
C30_CacheClearedAfterInsert ==
    [][(dm.stage = "on" /\ dm.pc # "idle" /\ dm'.pc = "idle" /\ dm'.total > 0) =>
          dm'.cache = EmptyCache]_vars

=============================================================================
